---- MODULE Spec2Model ----
(***************************************************************************)
(* Model of the classification-and-clustering engine of TweetClassifier:   *)
(* src/src/lib/clustering.ts (distance matrix, agglomerative clustering,   *)
(* flat-cluster extraction, evaluation) and src/src/lib/knn.ts (metrics,   *)
(* k-nearest-neighbour vote).                                              *)
(*                                                                         *)
(* JavaScript arrays are sequences: the element at JS index i is a[i+1].   *)
(* Strings are sequences of one-character strings.                         *)
(* Numbers are IEEE 754 binary64, bit for bit, with Infinity and NaN.       *)
(***************************************************************************)
EXTENDS Integers, Sequences, FiniteSets, TLC

VARIABLES
    pc,              \* position of the running call
    tweets,          \* ClusteringSection's tweets prop: [cleaned, label] records
    distanceMatrix,  \* the caller's matrix, argument of hierarchicalClustering
    method,          \* LinkageMethod
    distances,       \* hierarchicalClustering: the mutable working copy
    matrixRows,      \* the row objects of distanceMatrix, by address
    distancesRows,   \* the row objects of distances, by address
    active,          \* hierarchicalClustering: the set of active indices
    clusterSizes,    \* hierarchicalClustering: sizes by index
    clusters,        \* hierarchicalClustering: the MergeRecords pushed so far
    kArg,            \* formClusters: the k argument (0 before the call)
    assignments,     \* formClusters: the returned assignment
    accuracy,        \* calculateAccuracy: the returned value
    knnPc,           \* position of the running knnClassify call
    tweetText,       \* knnClassify: the query
    trainingData,    \* knnClassify: the reference tweets
    params,          \* knnClassify: KNNParams
    neighbors,       \* knnClassify: the sorted, sliced distances array
    predictedLabel,  \* knnClassify: the returned label
    evalPc,          \* which evaluation function was called directly
    predictedArg,    \* its first argument (predicted / clusters1)
    actualArg,       \* its second argument (actual / clusters2)
    clusterToLabel,  \* calculateAccuracy, createConfusionMatrix: the Map built
    evalResult,      \* the value returned
    metricPc,        \* position of the caller of a metric of knn.ts
    metricType,      \* the metric's name
    metricA,         \* the first string
    metricB,         \* the second string
    metricResult,    \* distance(a, b)
    metricSwapped,   \* distance(b, a)
    testTweets,      \* page state: the test tweets
    trainingTweets,  \* page state: the training tweets
    knnParams,       \* page state: KNNParams
    classificationMethod,  \* page state: "knn" or "dictionary"
    isClassifying,   \* page state: a classification is pending
    classifyTimer,   \* the pending setTimeout callbacks of handleClassify:
                     \* the values the closure of each captured
    testSplitPercentage,  \* UploadSection state: the share of the test set
    fileReads,       \* the upload handlers suspended at await file.text():
                     \* the handler, the file and the values it captured
    events           \* the number of events the user has triggered

hcVars == <<distanceMatrix, method, distances, matrixRows, distancesRows, active,
           clusterSizes, clusters>>
clusterVars == <<pc, tweets, distanceMatrix, method, distances, matrixRows,
                 distancesRows, active,
                 clusterSizes, clusters, kArg, assignments, accuracy>>
knnVars == <<knnPc, tweetText, trainingData, params, neighbors, predictedLabel>>
evalVars == <<evalPc, predictedArg, actualArg, clusterToLabel, evalResult>>
metricVars == <<metricPc, metricType, metricA, metricB, metricResult, metricSwapped>>
uiVars == <<testTweets, trainingTweets, knnParams, classificationMethod,
            isClassifying, classifyTimer, testSplitPercentage, fileReads, events>>
vars == <<clusterVars, knnVars, evalVars, metricVars, uiVars>>

----------------------------------------------------------------------------
(* Bounds *)

MaxN == 4

\* Matrices of up to MaxRichN rows draw their entries from RichValues, larger
\* ones from CoarseValues; RoundingMatrix and SharedWordsMatrix come on top.
MaxRichN == 3

\* The most tweets handed to ClusteringSection.
MaxTweets == 3

\* The most reference tweets handed to knnClassify, and the largest k.
MaxTrain == 3

MaxK == 3

\* The most documents handed to an evaluation function called directly.
MaxDocs == 4

\* The most upload handlers suspended at a time.
MaxReads == 1

\* The most events the user triggers on the page.
MaxEvents == 5

----------------------------------------------------------------------------
(* The JavaScript number: IEEE 754 binary64, round to nearest, ties to even. *)
(* clustering.ts and knn.ts compare and sum values whose last bit decides,   *)
(* so /, *, +, - and Math.sqrt are computed bit for bit.  A magnitude is an  *)
(* unbounded natural: limbs in base BigBase, least significant first, no     *)
(* leading zero.  The Dbl operators take finite operands; the operators of   *)
(* the section Numbers add Infinity and NaN.  No operand formed here is      *)
(* subnormal or overflows, and no zero is negative.                          *)

Abs(x) == IF x < 0 THEN -x ELSE x

\* Math.max and Math.min of two integers.
Max(a, b) == IF a > b THEN a ELSE b

Min(a, b) == IF a < b THEN a ELSE b

LimbBits == 13

BigBase == 8192

MantissaBits == 53

RECURSIVE PowerOfTwo(_)
PowerOfTwo(k) == IF k = 0 THEN 1 ELSE 2 * PowerOfTwo(k - 1)

\* The powers of two below 2^31, by exponent.
SmallPowers == [k \in 0..30 |-> PowerOfTwo(k)]

Pow2(k) == SmallPowers[k]

RECURSIVE BitLength(_)
BitLength(i) == IF i = 0 THEN 0 ELSE 1 + BitLength(i \div 2)

RECURSIVE BigCarry(_, _, _)
BigCarry(x, pos, carry) ==
    IF pos > Len(x)
    THEN IF carry = 0 THEN <<>>
         ELSE <<carry % BigBase>> \o BigCarry(x, pos, carry \div BigBase)
    ELSE LET v == x[pos] + carry
         IN  <<v % BigBase>> \o BigCarry(x, pos + 1, v \div BigBase)

RECURSIVE BigStrip(_)
BigStrip(x) ==
    IF Len(x) > 0 /\ x[Len(x)] = 0 THEN BigStrip(SubSeq(x, 1, Len(x) - 1)) ELSE x

BigNorm(x) == BigStrip(BigCarry(x, 1, 0))

BigFromInt(i) == BigNorm(<<i>>)

BigDigit(x, pos) == IF pos >= 1 /\ pos <= Len(x) THEN x[pos] ELSE 0

BigAdd(x, y) == BigNorm([q \in 1..Max(Len(x), Len(y)) |-> BigDigit(x, q) + BigDigit(y, q)])

RECURSIVE BigBorrow(_, _, _, _)
BigBorrow(x, y, pos, borrow) ==
    IF pos > Len(x) THEN <<>>
    ELSE LET v == x[pos] - BigDigit(y, pos) - borrow
         IN  <<IF v < 0 THEN v + BigBase ELSE v>>
             \o BigBorrow(x, y, pos + 1, IF v < 0 THEN 1 ELSE 0)

\* x - y for x >= y.
BigSub(x, y) == BigStrip(BigBorrow(x, y, 1, 0))

RECURSIVE BigConv(_, _, _, _)
BigConv(x, y, k, i) ==
    IF i > Len(x) THEN 0
    ELSE x[i] * BigDigit(y, k - i + 1) + BigConv(x, y, k, i + 1)

BigMul(x, y) ==
    IF Len(x) = 0 \/ Len(y) = 0 THEN <<>>
    ELSE BigNorm([k \in 1..(Len(x) + Len(y) - 1) |-> BigConv(x, y, k, 1)])

RECURSIVE BigLessFrom(_, _, _)
BigLessFrom(x, y, pos) ==
    IF pos = 0 THEN FALSE
    ELSE IF x[pos] # y[pos] THEN x[pos] < y[pos]
    ELSE BigLessFrom(x, y, pos - 1)

BigLess(x, y) ==
    IF Len(x) # Len(y) THEN Len(x) < Len(y) ELSE BigLessFrom(x, y, Len(x))

BigEq(x, y) == ~BigLess(x, y) /\ ~BigLess(y, x)

BigBits(x) ==
    IF Len(x) = 0 THEN 0 ELSE LimbBits * (Len(x) - 1) + BitLength(x[Len(x)])

\* x * 2^k and floor(x / 2^k).
BigShl(x, k) ==
    IF k = 0 THEN x
    ELSE BigNorm([q \in 1..(Len(x) + k \div LimbBits) |->
                    IF q <= k \div LimbBits THEN 0
                    ELSE x[q - k \div LimbBits] * Pow2(k % LimbBits)])

ShiftedLimb(x, q, low, high) == (x[q] \div low) + (BigDigit(x, q + 1) % low) * high

BigShr(x, k) ==
    IF k = 0 THEN x
    ELSE BigStrip([q \in 1..(Len(x) - k \div LimbBits) |->
                     ShiftedLimb(x, q + k \div LimbBits, Pow2(k % LimbBits),
                                 Pow2(LimbBits - (k % LimbBits)))])

\* Bit i of x, and whether a bit below bit i is set.
BitAt(x, i) == (BigDigit(x, i \div LimbBits + 1) \div Pow2(i % LimbBits)) % 2

BitsBelow(x, i) ==
    \/ \E q \in 1..Min(Len(x), i \div LimbBits) : x[q] # 0
    \/ BigDigit(x, i \div LimbBits + 1) % Pow2(i % LimbBits) # 0

\* A number is s * m * 2^e with s in {1, -1} and m of exactly MantissaBits
\* bits, or zero (no limb).
DblZero == [s |-> 1, m |-> <<>>, e |-> 0]

IsZero(x) == Len(x.m) = 0

\* The number nearest to s * N * 2^e, or to a value between that and
\* s * (N + 1) * 2^e when sticky; ties go to the even mantissa.
RoundedUp(s, r, e) ==
    IF BigBits(r) > MantissaBits
    THEN [s |-> s, m |-> BigShr(r, 1), e |-> e + 1]
    ELSE [s |-> s, m |-> r, e |-> e]

\* N loses its t lowest bits: up when they are above half a unit of what
\* stays, or half a unit exactly and what stays is odd.
RoundBits(s, N, e, sticky, t, q) ==
    IF BitAt(N, t - 1) = 1 /\ (BitsBelow(N, t - 1) \/ sticky \/ q[1] % 2 = 1)
    THEN RoundedUp(s, BigAdd(q, <<1>>), e + t)
    ELSE [s |-> s, m |-> q, e |-> e + t]

RoundWide(s, N, e, sticky, t) ==
    IF t <= 0 THEN [s |-> s, m |-> BigShl(N, -t), e |-> e + t]
    ELSE RoundBits(s, N, e, sticky, t, BigShr(N, t))

RoundNat(s, N, e, sticky) ==
    IF Len(N) = 0 THEN DblZero
    ELSE RoundWide(s, N, e, sticky, BigBits(N) - MantissaBits)

DblFromInt(i) == RoundNat(IF i < 0 THEN -1 ELSE 1, BigFromInt(Abs(i)), 0, FALSE)

DblNeg(x) == IF IsZero(x) THEN x ELSE [x EXCEPT !.s = -x.s]

\* Operator *.
DblMul(x, y) == RoundNat(x.s * y.s, BigMul(x.m, y.m), x.e + y.e, FALSE)

\* Beyond this many bits between the exponents the smaller operand of a sum is
\* below half a unit in the last place of the larger one.
AlignBits == 64

\* Operator +.
DblAdd(x, y) ==
    IF IsZero(x) THEN y
    ELSE IF IsZero(y) THEN x
    ELSE IF x.e - y.e > AlignBits THEN x
    ELSE IF y.e - x.e > AlignBits THEN y
    ELSE LET e == Min(x.e, y.e)
             a == BigShl(x.m, x.e - e)
             b == BigShl(y.m, y.e - e)
         IN  IF x.s = y.s THEN RoundNat(x.s, BigAdd(a, b), e, FALSE)
             ELSE IF BigLess(a, b) THEN RoundNat(y.s, BigSub(b, a), e, FALSE)
             ELSE RoundNat(x.s, BigSub(a, b), e, FALSE)

\* Operator -.
DblSub(x, y) == DblAdd(x, DblNeg(y))

\* Quotient bits computed below the leading one: guard bits for the rounding.
DivBits == 56

\* Binary long division, one quotient bit per step.  st = [q, r, steps].
RECURSIVE LongDiv(_, _)
LongDiv(st, divisor) ==
    IF st.steps = 0 THEN st
    ELSE LET r2 == BigAdd(st.r, st.r)
             bit == ~BigLess(r2, divisor)
         IN  LongDiv([q |-> BigAdd(BigAdd(st.q, st.q), IF bit THEN <<1>> ELSE <<>>),
                      r |-> IF bit THEN BigSub(r2, divisor) ELSE r2,
                      steps |-> st.steps - 1],
                     divisor)

\* Short division of x, from its top limb down, by a divisor k below BigBase.
\* st = [q, r]: the quotient limbs so far and the running remainder.
RECURSIVE ShortDiv(_, _, _, _)
ShortDiv(x, k, pos, st) ==
    IF pos = 0 THEN st
    ELSE LET cur == st.r * BigBase + x[pos]
         IN  ShortDiv(x, k, pos - 1,
                      [q |-> <<cur \div k>> \o st.q, r |-> cur % k])

\* Operator /, for a divisor other than zero.  A divisor whose mantissa is
\* its leading LimbBits bits followed by zeros (every small integer is one) is
\* divided by limb, any other by bit.
DblDiv(x, y) ==
    IF IsZero(x) THEN DblZero
    ELSE LET low == MantissaBits - LimbBits
             k == BigShr(y.m, low)
         IN  IF BigEq(BigShl(k, low), y.m)
             THEN LET st == ShortDiv(<<0, 0>> \o x.m, k[1], Len(x.m) + 2,
                                     [q |-> <<>>, r |-> 0])
                  IN  RoundNat(x.s * y.s, BigStrip(st.q),
                               x.e - y.e - low - 2 * LimbBits, st.r > 0)
             ELSE LET first == ~BigLess(x.m, y.m)
                      st == LongDiv([q |-> IF first THEN <<1>> ELSE <<>>,
                                     r |-> IF first THEN BigSub(x.m, y.m) ELSE x.m,
                                     steps |-> DivBits],
                                    y.m)
                  IN  RoundNat(x.s * y.s, st.q, x.e - y.e - DivBits, Len(st.r) > 0)

\* x * k for a factor k below BigBase.
BigScale(x, k) == BigNorm([q \in 1..Len(x) |-> x[q] * k])

\* The root of an integer below BigBase * BigBase, one bit at a time from the
\* top: p is the root so far and bit the bit to try.
RECURSIVE IntRoot(_, _, _)
IntRoot(n, p, bit) ==
    IF bit = 0 THEN p
    ELSE IntRoot(n, IF (p + bit) * (p + bit) <= n THEN p + bit ELSE p, bit \div 2)

\* The next limb of a root p over what the limbs read leave, r: the largest q
\* with (2 * p * BigBase + q) * q <= r, found from a first guess that is not
\* below it.  The guess divides the leading limbs of r / (2 * BigBase) by
\* the leading limb of p.
RootGuess(p, r) ==
    IF Len(p) = 0 THEN IntRoot(BigDigit(r, 2) * BigBase + BigDigit(r, 1), 0, BigBase \div 2)
    ELSE Min(BigBase - 1,
             ((BigDigit(r, Len(p) + 3) * BigBase + BigDigit(r, Len(p) + 2)) * BigBase
              + BigDigit(r, Len(p) + 1)) \div (2 * p[Len(p)]))

RECURSIVE RootDigit(_, _, _)
RootDigit(d, r, q) ==
    LET t == BigScale(<<q>> \o d, q)
    IN  IF BigLess(r, t) THEN RootDigit(d, r, q - 1)
        ELSE [q |-> q, r |-> BigSub(r, t)]

\* The root of N one limb at a time, from the top pair of limbs down.  st =
\* [p, r, pair]: the root of the limbs read, what they leave over p * p, and
\* the next pair to read.  The top pair of N is at least BigBase^2 / 4, which
\* puts the leading limb of p at BigBase / 2 or above.
RECURSIVE SqrtLimbs(_, _)
SqrtLimbs(N, st) ==
    IF st.pair = 0 THEN st
    ELSE LET r == BigStrip(<<N[2 * st.pair - 1], N[2 * st.pair]>> \o st.r)
             step == RootDigit(BigAdd(st.p, st.p), r, RootGuess(st.p, r))
         IN  SqrtLimbs(N, [p |-> <<step.q>> \o st.p, r |-> step.r,
                           pair |-> st.pair - 1])

\* Bits set under the mantissa before the root is taken: with the parity of
\* the exponent added, the radicand fills ten limbs and its root has twelve
\* bits for the rounding.
RootBits == 76

\* Math.sqrt of a number that is not negative.
DblSqrt(x) ==
    IF IsZero(x) THEN DblZero
    ELSE LET shift == RootBits + (x.e % 2)
             N == BigShl(x.m, shift)
             st == SqrtLimbs(N, [p |-> <<>>, r |-> <<>>, pair |-> Len(N) \div 2])
         IN  RoundNat(1, st.p, (x.e - shift) \div 2, Len(st.r) > 0)

Sign(x) == IF IsZero(x) THEN 0 ELSE x.s

MagLess(x, y) == x.e < y.e \/ (x.e = y.e /\ BigLess(x.m, y.m))

\* Operator <.
DblLess(x, y) ==
    IF Sign(x) # Sign(y) THEN Sign(x) < Sign(y)
    ELSE IF Sign(x) = 1 THEN MagLess(x, y)
    ELSE IF Sign(x) = -1 THEN MagLess(y, x)
    ELSE FALSE

DblLessEq(x, y) == ~DblLess(y, x)

\* The JavaScript quotient a / b of two integers, b # 0.
DblQuot(a, b) == DblDiv(DblFromInt(a), DblFromInt(b))

----------------------------------------------------------------------------
(* Numbers: the JavaScript number with Infinity and NaN *)

At(a, i) == a[i + 1]

\* The numbers 0..MaxSmall and their quotients, computed once.
MaxSmall == 16

SmallNums == [i \in 0..MaxSmall |-> DblFromInt(i)]

Int2Num(i) == IF i \in DOMAIN SmallNums THEN SmallNums[i] ELSE DblFromInt(i)

\* Infinity and NaN carry the exponent above the largest finite one, as in
\* the encoding: no mantissa bit for an infinity, one for NaN.
Infinity == [s |-> 1, m |-> <<>>, e |-> 972]

NaN == [s |-> 1, m |-> <<1>>, e |-> 972]

IsNaN(x) == x = NaN

IsFinite(x) == x.e < Infinity.e

IsZeroNum(x) == IsFinite(x) /\ IsZero(x)

\* Operator +.
NumAdd(x, y) ==
    IF IsNaN(x) \/ IsNaN(y) THEN NaN
    ELSE IF ~IsFinite(x) THEN IF ~IsFinite(y) /\ x.s # y.s THEN NaN ELSE x
    ELSE IF ~IsFinite(y) THEN y
    ELSE DblAdd(x, y)

NumNeg(x) ==
    IF IsNaN(x) THEN NaN
    ELSE IF ~IsFinite(x) THEN [x EXCEPT !.s = -x.s]
    ELSE DblNeg(x)

\* Operator -.
NumSub(x, y) == NumAdd(x, NumNeg(y))

\* Operator *.
NumMul(x, y) ==
    IF IsNaN(x) \/ IsNaN(y) THEN NaN
    ELSE IF ~IsFinite(x) \/ ~IsFinite(y)
         THEN IF IsZeroNum(x) \/ IsZeroNum(y) THEN NaN
              ELSE [Infinity EXCEPT !.s = x.s * y.s]
    ELSE DblMul(x, y)

\* Operator /.
NumDiv(x, y) ==
    IF IsNaN(x) \/ IsNaN(y) THEN NaN
    ELSE IF ~IsFinite(x)
         THEN IF ~IsFinite(y) THEN NaN ELSE [Infinity EXCEPT !.s = x.s * y.s]
    ELSE IF ~IsFinite(y) THEN DblZero
    ELSE IF IsZero(y)
         THEN IF IsZero(x) THEN NaN ELSE [Infinity EXCEPT !.s = x.s]
    ELSE DblDiv(x, y)

IsNegative(x) == ~IsNaN(x) /\ ~IsZeroNum(x) /\ x.s = -1

\* Math.sqrt: NaN below zero.
Sqrt(x) ==
    IF IsNaN(x) \/ IsNegative(x) THEN NaN
    ELSE IF ~IsFinite(x) THEN Infinity
    ELSE DblSqrt(x)

\* The JavaScript comparison x < y: false as soon as an operand is NaN.
Less(x, y) ==
    IF IsNaN(x) \/ IsNaN(y) THEN FALSE
    ELSE IF x = y THEN FALSE
    ELSE IF ~IsFinite(x) THEN x.s = -1
    ELSE IF ~IsFinite(y) THEN y.s = 1
    ELSE DblLess(x, y)

LessEq(x, y) == ~IsNaN(x) /\ ~IsNaN(y) /\ ~Less(y, x)
----------------------------------------------------------------------------
(* Strings, tweetDistance, createDistanceMatrix *)

\* The characters the class \s of a regular expression matches, among those a
\* string of a module can hold: tab, line feed, vertical tab, form feed,
\* carriage return, space, U+00A0, U+1680 and U+FEFF.  (U+2000 to U+200A,
\* U+2028, U+2029, U+202F, U+205F and U+3000 are outside the alphabet.)
Whitespace ==
    {"\t", "\n", "", "\f", "\r", " ", " ", " ", "﻿"}

\* The characters String.prototype.toLowerCase changes, among those a string
\* of a module can hold, in the order of their code points, and the character
\* it maps each to.  A character no string of a module can hold is written by
\* its code point, as in "U+0253".  Every other character of the alphabet is
\* left as it is, but for the capital sigma, which ToLowerCase maps by what
\* stands around it.
UpperCase ==
    <<"A", "B", "C", "D", "E", "F", "G", "H", "I", "J", "K", "L", "M",
      "N", "O", "P", "Q", "R", "S", "T", "U", "V", "W", "X", "Y", "Z",
      "À", "Á", "Â", "Ã", "Ä", "Å", "Æ", "Ç", "È", "É", "Ê", "Ë", "Ì",
      "Í", "Î", "Ï", "Ð", "Ñ", "Ò", "Ó", "Ô", "Õ", "Ö", "Ø", "Ù", "Ú",
      "Û", "Ü", "Ý", "Þ", "Ɓ", "Ƃ", "Ƅ", "Ɔ", "Ƈ", "Ɖ", "Ɗ", "Ƌ", "Ǝ",
      "Ə", "Ɛ", "Ƒ", "Ɠ", "Ɣ", "Ɩ", "Ɨ", "Ƙ", "Ɯ", "Ɲ", "Ɵ", "Ơ", "Ƣ",
      "Ƥ", "Ʀ", "Ƨ", "Ʃ", "Ƭ", "Ʈ", "Ư", "Ʊ", "Ʋ", "Ƴ", "Ƶ", "Ʒ", "Ƹ",
      "Ƽ", "Ǆ", "ǅ", "Ǉ", "ǈ", "Ǌ", "ǋ", "Ǎ", "Ǐ", "Ǒ", "Ǔ", "Ǖ", "Ǘ",
      "Ǚ", "Ǜ", "Ǟ", "Ǡ", "Ǣ", "Ǥ", "Ǧ", "Ǩ", "Ǫ", "Ǭ", "Ǯ", "Ǳ", "ǲ",
      "Ǵ", "Ƕ", "Ƿ", "Ǹ", "Ǻ", "Ǽ", "Ǿ", "Ά", "Έ", "Ή", "Ί", "Ό", "Ύ",
      "Ώ", "Α", "Β", "Γ", "Δ", "Ε", "Ζ", "Η", "Θ", "Ι", "Κ", "Λ", "Μ",
      "Ν", "Ξ", "Ο", "Π", "Ρ", "Σ", "Τ", "Υ", "Φ", "Χ", "Ψ", "Ω", "Ϊ",
      "Ϋ", "Ϗ", "Ϙ", "Ϛ", "Ϝ", "Ϟ", "Ϡ", "Ϣ", "Ϥ", "Ϧ", "Ϩ", "Ϫ", "Ϭ",
      "Ϯ", "ϴ", "Ϸ", "Ϲ", "Ϻ", "Ͻ", "Ͼ", "Ͽ", "Ҁ", "Ҋ", "Ҍ", "Ҏ", "Ґ",
      "Ғ", "Ҕ", "Җ", "Ҙ", "Қ", "Ҝ", "Ҟ", "Ҡ", "Ң", "Ҥ", "Ҧ", "Ҩ", "Ҫ",
      "Ҭ", "Ү", "Ұ", "Ҳ", "Ҵ", "Ҷ", "Ҹ", "Һ", "Ҽ", "Ҿ", "Ӏ", "Ӂ", "Ӄ",
      "Ӆ", "Ӈ", "Ӊ", "Ӌ", "Ӎ", "Ӑ", "Ӓ", "Ӕ", "Ӗ", "Ә", "Ӛ", "Ӝ", "Ӟ",
      "Ӡ", "Ӣ", "Ӥ", "Ӧ", "Ө", "Ӫ", "Ӭ", "Ӯ", "Ӱ", "Ӳ", "Ӵ", "Ӷ", "Ӹ",
      "Ӻ", "Ӽ", "Ӿ", "Ⴀ", "Ⴁ", "Ⴂ", "Ⴃ", "Ⴄ", "Ⴅ", "Ⴆ", "Ⴇ", "Ⴈ", "Ⴉ",
      "Ⴊ", "Ⴋ", "Ⴌ", "Ⴍ", "Ⴎ", "Ⴏ", "Ⴐ", "Ⴑ", "Ⴒ", "Ⴓ", "Ⴔ", "Ⴕ", "Ⴖ",
      "Ⴗ", "Ⴘ", "Ⴙ", "Ⴚ", "Ⴛ", "Ⴜ", "Ⴝ", "Ⴞ", "Ⴟ", "Ⴠ", "Ⴡ", "Ⴢ", "Ⴣ",
      "Ⴤ", "Ⴥ", "Ⴧ", "Ⴭ", "Ꭰ", "Ꭱ", "Ꭲ", "Ꭳ", "Ꭴ", "Ꭵ", "Ꭶ", "Ꭷ", "Ꭸ",
      "Ꭹ", "Ꭺ", "Ꭻ", "Ꭼ", "Ꭽ", "Ꭾ", "Ꭿ", "Ꮀ", "Ꮁ", "Ꮂ", "Ꮃ", "Ꮄ", "Ꮅ",
      "Ꮆ", "Ꮇ", "Ꮈ", "Ꮉ", "Ꮊ", "Ꮋ", "Ꮌ", "Ꮍ", "Ꮎ", "Ꮏ", "Ꮐ", "Ꮑ", "Ꮒ",
      "Ꮓ", "Ꮔ", "Ꮕ", "Ꮖ", "Ꮗ", "Ꮘ", "Ꮙ", "Ꮚ", "Ꮛ", "Ꮜ", "Ꮝ", "Ꮞ", "Ꮟ",
      "Ꮠ", "Ꮡ", "Ꮢ", "Ꮣ", "Ꮤ", "Ꮥ", "Ꮦ", "Ꮧ", "Ꮨ", "Ꮩ", "Ꮪ", "Ꮫ", "Ꮬ",
      "Ꮭ", "Ꮮ", "Ꮯ", "Ꮰ", "Ꮱ", "Ꮲ", "Ꮳ", "Ꮴ", "Ꮵ", "Ꮶ", "Ꮷ", "Ꮸ", "Ꮹ",
      "Ꮺ", "Ꮻ", "Ꮼ", "Ꮽ", "Ꮾ", "Ꮿ", "Ᏸ", "Ᏹ", "Ᏺ", "Ᏻ", "Ᏼ", "Ᏽ", "Ᲊ",
      "Ა", "Ბ", "Გ", "Დ", "Ე", "Ვ", "Ზ", "Თ", "Ი", "Კ", "Ლ", "Მ", "Ნ",
      "Ო", "Პ", "Ჟ", "Რ", "Ს", "Ტ", "Უ", "Ფ", "Ქ", "Ღ", "Ყ", "Შ", "Ჩ",
      "Ც", "Ძ", "Წ", "Ჭ", "Ხ", "Ჯ", "Ჰ", "Ჱ", "Ჲ", "Ჳ", "Ჴ", "Ჵ", "Ჶ",
      "Ჷ", "Ჸ", "Ჹ", "Ჺ", "Ჽ", "Ჾ", "Ჿ", "Ẁ", "Ẃ", "Ẅ", "Ẇ", "Ẉ", "Ẋ",
      "Ẍ", "Ẏ", "Ẑ", "Ẓ", "Ẕ", "ẞ", "Ạ", "Ả", "Ấ", "Ầ", "Ẩ", "Ẫ", "Ậ",
      "Ắ", "Ằ", "Ẳ", "Ẵ", "Ặ", "Ẹ", "Ẻ", "Ẽ", "Ế", "Ề", "Ể", "Ễ", "Ệ",
      "Ỉ", "Ị", "Ọ", "Ỏ", "Ố", "Ồ", "Ổ", "Ỗ", "Ộ", "Ớ", "Ờ", "Ở", "Ỡ",
      "Ợ", "Ụ", "Ủ", "Ứ", "Ừ", "Ử", "Ữ", "Ự", "Ỳ", "Ỵ", "Ỷ", "Ỹ", "Ỻ",
      "Ỽ", "Ỿ", "ᾈ", "ᾉ", "ᾊ", "ᾋ", "ᾌ", "ᾍ", "ᾎ", "ᾏ", "ᾘ", "ᾙ", "ᾚ",
      "ᾛ", "ᾜ", "ᾝ", "ᾞ", "ᾟ", "ᾨ", "ᾩ", "ᾪ", "ᾫ", "ᾬ", "ᾭ", "ᾮ", "ᾯ",
      "Ᾰ", "Ᾱ", "Ὰ", "Ά", "ᾼ", "Ὲ", "Έ", "Ὴ", "Ή", "ῌ", "Ῐ", "Ῑ", "Ὶ",
      "Ί", "Ῠ", "Ῡ", "Ὺ", "Ύ", "Ῥ", "Ὸ", "Ό", "Ὼ", "Ώ", "ῼ", "Ↄ", "Ⓐ",
      "Ⓑ", "Ⓒ", "Ⓓ", "Ⓔ", "Ⓕ", "Ⓖ", "Ⓗ", "Ⓘ", "Ⓙ", "Ⓚ", "Ⓛ", "Ⓜ", "Ⓝ",
      "Ⓞ", "Ⓟ", "Ⓠ", "Ⓡ", "Ⓢ", "Ⓣ", "Ⓤ", "Ⓥ", "Ⓦ", "Ⓧ", "Ⓨ", "Ⓩ", "Ⲁ",
      "Ⲃ", "Ⲅ", "Ⲇ", "Ⲉ", "Ⲋ", "Ⲍ", "Ⲏ", "Ⲑ", "Ⲓ", "Ⲕ", "Ⲗ", "Ⲙ", "Ⲛ",
      "Ⲝ", "Ⲟ", "Ⲡ", "Ⲣ", "Ⲥ", "Ⲧ", "Ⲩ", "Ⲫ", "Ⲭ", "Ⲯ", "Ⲱ", "Ⲳ", "Ⲵ",
      "Ⲷ", "Ⲹ", "Ⲻ", "Ⲽ", "Ⲿ", "Ⳁ", "Ⳃ", "Ⳅ", "Ⳇ", "Ⳉ", "Ⳋ", "Ⳍ", "Ⳏ",
      "Ⳑ", "Ⳓ", "Ⳕ", "Ⳗ", "Ⳙ", "Ⳛ", "Ⳝ", "Ⳟ", "Ⳡ", "Ⳣ", "Ⳬ", "Ⳮ", "Ⳳ",
      "Ꚁ", "Ꚃ", "Ꚅ", "Ꚇ", "Ꚉ", "Ꚋ", "Ꚍ", "Ꚏ", "Ꚑ", "Ꚓ", "Ꚕ", "Ꚗ", "Ꚙ",
      "Ꚛ", "Ꞁ", "Ꞃ", "Ꞅ", "Ꞇ", "Ꞌ", "Ɥ", "Ꞑ", "Ꞓ", "Ꞗ", "Ꞙ", "Ꞛ", "Ꞝ",
      "Ꞟ", "Ꞡ", "Ꞣ", "Ꞥ", "Ꞧ", "Ꞩ", "Ɦ", "Ɜ", "Ɡ", "Ɬ", "Ɪ", "Ʞ", "Ʇ",
      "Ʝ", "Ꭓ", "Ꞵ", "Ꞷ", "Ꞹ", "Ꞻ", "Ꞽ", "Ꞿ", "Ꟁ", "Ꟃ", "Ꞔ", "Ʂ", "Ᶎ",
      "Ꟈ", "Ꟊ", "Ɤ", "Ꟍ", "꟎", "Ꟑ", "꟒", "꟔", "Ꟗ", "Ꟙ", "Ꟛ", "Ƛ", "Ꟶ">>

LowerCase ==
    <<"a", "b", "c", "d", "e", "f", "g", "h", "i", "j", "k", "l", "m",
      "n", "o", "p", "q", "r", "s", "t", "u", "v", "w", "x", "y", "z",
      "à", "á", "â", "ã", "ä", "å", "æ", "ç", "è", "é", "ê", "ë", "ì",
      "í", "î", "ï", "ð", "ñ", "ò", "ó", "ô", "õ", "ö", "ø", "ù", "ú",
      "û", "ü", "ý", "þ", "U+0253", "ƃ", "ƅ", "U+0254", "ƈ", "U+0256", "U+0257", "ƌ", "ǝ",
      "U+0259", "U+025B", "ƒ", "U+0260", "U+0263", "U+0269", "U+0268", "ƙ", "U+026F", "U+0272", "U+0275", "ơ", "ƣ",
      "ƥ", "ʀ", "ƨ", "ʃ", "ƭ", "ʈ", "ư", "ʊ", "ʋ", "ƴ", "ƶ", "ʒ", "ƹ",
      "ƽ", "ǆ", "ǆ", "ǉ", "ǉ", "ǌ", "ǌ", "ǎ", "ǐ", "ǒ", "ǔ", "ǖ", "ǘ",
      "ǚ", "ǜ", "ǟ", "ǡ", "ǣ", "ǥ", "ǧ", "ǩ", "ǫ", "ǭ", "ǯ", "ǳ", "ǳ",
      "ǵ", "ƕ", "ƿ", "ǹ", "ǻ", "ǽ", "ǿ", "ά", "έ", "ή", "ί", "ό", "ύ",
      "ώ", "α", "β", "γ", "δ", "ε", "ζ", "η", "θ", "ι", "κ", "λ", "μ",
      "ν", "ξ", "ο", "π", "ρ", "σ", "τ", "υ", "φ", "χ", "ψ", "ω", "ϊ",
      "ϋ", "ϗ", "ϙ", "ϛ", "ϝ", "ϟ", "ϡ", "ϣ", "ϥ", "ϧ", "ϩ", "ϫ", "ϭ",
      "ϯ", "θ", "ϸ", "ϲ", "ϻ", "U+037B", "U+037C", "U+037D", "ҁ", "ҋ", "ҍ", "ҏ", "ґ",
      "ғ", "ҕ", "җ", "ҙ", "қ", "ҝ", "ҟ", "ҡ", "ң", "ҥ", "ҧ", "ҩ", "ҫ",
      "ҭ", "ү", "ұ", "ҳ", "ҵ", "ҷ", "ҹ", "һ", "ҽ", "ҿ", "ӏ", "ӂ", "ӄ",
      "ӆ", "ӈ", "ӊ", "ӌ", "ӎ", "ӑ", "ӓ", "ӕ", "ӗ", "ә", "ӛ", "ӝ", "ӟ",
      "ӡ", "ӣ", "ӥ", "ӧ", "ө", "ӫ", "ӭ", "ӯ", "ӱ", "ӳ", "ӵ", "ӷ", "ӹ",
      "ӻ", "ӽ", "ӿ", "U+2D00", "U+2D01", "U+2D02", "U+2D03", "U+2D04", "U+2D05", "U+2D06", "U+2D07", "U+2D08", "U+2D09",
      "U+2D0A", "U+2D0B", "U+2D0C", "U+2D0D", "U+2D0E", "U+2D0F", "U+2D10", "U+2D11", "U+2D12", "U+2D13", "U+2D14", "U+2D15", "U+2D16",
      "U+2D17", "U+2D18", "U+2D19", "U+2D1A", "U+2D1B", "U+2D1C", "U+2D1D", "U+2D1E", "U+2D1F", "U+2D20", "U+2D21", "U+2D22", "U+2D23",
      "U+2D24", "U+2D25", "U+2D27", "U+2D2D", "U+AB70", "U+AB71", "U+AB72", "U+AB73", "U+AB74", "U+AB75", "U+AB76", "U+AB77", "U+AB78",
      "U+AB79", "U+AB7A", "U+AB7B", "U+AB7C", "U+AB7D", "U+AB7E", "U+AB7F", "ꮀ", "ꮁ", "ꮂ", "ꮃ", "ꮄ", "ꮅ",
      "ꮆ", "ꮇ", "ꮈ", "ꮉ", "ꮊ", "ꮋ", "ꮌ", "ꮍ", "ꮎ", "ꮏ", "ꮐ", "ꮑ", "ꮒ",
      "ꮓ", "ꮔ", "ꮕ", "ꮖ", "ꮗ", "ꮘ", "ꮙ", "ꮚ", "ꮛ", "ꮜ", "ꮝ", "ꮞ", "ꮟ",
      "ꮠ", "ꮡ", "ꮢ", "ꮣ", "ꮤ", "ꮥ", "ꮦ", "ꮧ", "ꮨ", "ꮩ", "ꮪ", "ꮫ", "ꮬ",
      "ꮭ", "ꮮ", "ꮯ", "ꮰ", "ꮱ", "ꮲ", "ꮳ", "ꮴ", "ꮵ", "ꮶ", "ꮷ", "ꮸ", "ꮹ",
      "ꮺ", "ꮻ", "ꮼ", "ꮽ", "ꮾ", "ꮿ", "ᏸ", "ᏹ", "ᏺ", "ᏻ", "ᏼ", "ᏽ", "ᲊ",
      "ა", "ბ", "გ", "დ", "ე", "ვ", "ზ", "თ", "ი", "კ", "ლ", "მ", "ნ",
      "ო", "პ", "ჟ", "რ", "ს", "ტ", "უ", "ფ", "ქ", "ღ", "ყ", "შ", "ჩ",
      "ც", "ძ", "წ", "ჭ", "ხ", "ჯ", "ჰ", "ჱ", "ჲ", "ჳ", "ჴ", "ჵ", "ჶ",
      "ჷ", "ჸ", "ჹ", "ჺ", "ჽ", "ჾ", "ჿ", "ẁ", "ẃ", "ẅ", "ẇ", "ẉ", "ẋ",
      "ẍ", "ẏ", "ẑ", "ẓ", "ẕ", "ß", "ạ", "ả", "ấ", "ầ", "ẩ", "ẫ", "ậ",
      "ắ", "ằ", "ẳ", "ẵ", "ặ", "ẹ", "ẻ", "ẽ", "ế", "ề", "ể", "ễ", "ệ",
      "ỉ", "ị", "ọ", "ỏ", "ố", "ồ", "ổ", "ỗ", "ộ", "ớ", "ờ", "ở", "ỡ",
      "ợ", "ụ", "ủ", "ứ", "ừ", "ử", "ữ", "ự", "ỳ", "ỵ", "ỷ", "ỹ", "ỻ",
      "ỽ", "ỿ", "ᾀ", "ᾁ", "ᾂ", "ᾃ", "ᾄ", "ᾅ", "ᾆ", "ᾇ", "ᾐ", "ᾑ", "ᾒ",
      "ᾓ", "ᾔ", "ᾕ", "ᾖ", "ᾗ", "ᾠ", "ᾡ", "ᾢ", "ᾣ", "ᾤ", "ᾥ", "ᾦ", "ᾧ",
      "ᾰ", "ᾱ", "U+1F70", "U+1F71", "ᾳ", "U+1F72", "U+1F73", "U+1F74", "U+1F75", "ῃ", "ῐ", "ῑ", "U+1F76",
      "U+1F77", "ῠ", "ῡ", "U+1F7A", "U+1F7B", "ῥ", "U+1F78", "U+1F79", "U+1F7C", "U+1F7D", "ῳ", "ↄ", "ⓐ",
      "ⓑ", "ⓒ", "ⓓ", "ⓔ", "ⓕ", "ⓖ", "ⓗ", "ⓘ", "ⓙ", "ⓚ", "ⓛ", "ⓜ", "ⓝ",
      "ⓞ", "ⓟ", "ⓠ", "ⓡ", "ⓢ", "ⓣ", "ⓤ", "ⓥ", "ⓦ", "ⓧ", "ⓨ", "ⓩ", "ⲁ",
      "ⲃ", "ⲅ", "ⲇ", "ⲉ", "ⲋ", "ⲍ", "ⲏ", "ⲑ", "ⲓ", "ⲕ", "ⲗ", "ⲙ", "ⲛ",
      "ⲝ", "ⲟ", "ⲡ", "ⲣ", "ⲥ", "ⲧ", "ⲩ", "ⲫ", "ⲭ", "ⲯ", "ⲱ", "ⲳ", "ⲵ",
      "ⲷ", "ⲹ", "ⲻ", "ⲽ", "ⲿ", "ⳁ", "ⳃ", "ⳅ", "ⳇ", "ⳉ", "ⳋ", "ⳍ", "ⳏ",
      "ⳑ", "ⳓ", "ⳕ", "ⳗ", "ⳙ", "ⳛ", "ⳝ", "ⳟ", "ⳡ", "ⳣ", "ⳬ", "ⳮ", "ⳳ",
      "ꚁ", "ꚃ", "ꚅ", "ꚇ", "ꚉ", "ꚋ", "ꚍ", "ꚏ", "ꚑ", "ꚓ", "ꚕ", "ꚗ", "ꚙ",
      "ꚛ", "ꞁ", "ꞃ", "ꞅ", "ꞇ", "ꞌ", "U+0265", "ꞑ", "ꞓ", "ꞗ", "ꞙ", "ꞛ", "ꞝ",
      "ꞟ", "ꞡ", "ꞣ", "ꞥ", "ꞧ", "ꞩ", "U+0266", "U+025C", "U+0261", "U+026C", "U+026A", "ʞ", "ʇ",
      "ʝ", "U+AB53", "ꞵ", "ꞷ", "ꞹ", "ꞻ", "ꞽ", "ꞿ", "ꟁ", "ꟃ", "ꞔ", "ʂ", "ᶎ",
      "ꟈ", "ꟊ", "U+0264", "ꟍ", "꟏", "ꟑ", "ꟓ", "ꟕ", "ꟗ", "ꟙ", "ꟛ", "ƛ", "ꟶ">>

LowerCaseOf ==
    [c \in {UpperCase[q] : q \in 1..Len(UpperCase)} |->
        LowerCase[CHOOSE q \in 1..Len(UpperCase) : UpperCase[q] = c]]

ToLowerChar(c) == IF c \in DOMAIN LowerCaseOf THEN LowerCaseOf[c] ELSE c

\* The characters of the alphabet with the property Case_Ignorable.
CaseIgnorable ==
    {"'", ".", ":", "^", "¨", "­", "¯", "´", "·", "¸", "ʰ", "ʱ", "ʲ",
     "ʳ", "ʴ", "ʵ", "ʶ", "ʷ", "ʸ", "ʹ", "ʺ", "ʻ", "ʼ", "ʽ", "ʾ", "ʿ",
     "ˀ", "ˁ", "˂", "˃", "˄", "˅", "ˆ", "ˇ", "ˈ", "ˉ", "ˊ", "ˋ", "ˌ",
     "ˍ", "ˎ", "ˏ", "ː", "ˑ", "˒", "˓", "˔", "˕", "˖", "˗", "˘", "˙",
     "˚", "˛", "˜", "˝", "˞", "˟", "ˠ", "ˡ", "ˢ", "ˣ", "ˤ", "˥", "˦",
     "˧", "˨", "˩", "˪", "˫", "ˬ", "˭", "ˮ", "˯", "˰", "˱", "˲", "˳",
     "˴", "˵", "˶", "˷", "˸", "˹", "˺", "˻", "˼", "˽", "˾", "˿", "΄",
     "΅", "·", "҃", "҄", "҅", "҆", "҇", "҈", "҉", "֑", "֒", "֓", "֔",
     "֕", "֖", "֗", "֘", "֙", "֚", "֛", "֜", "֝", "֞", "֟", "֠", "֡",
     "֢", "֣", "֤", "֥", "֦", "֧", "֨", "֩", "֪", "֫", "֬", "֭", "֮",
     "֯", "ְ", "ֱ", "ֲ", "ֳ", "ִ", "ֵ", "ֶ", "ַ", "ָ", "ֹ", "ֺ", "ֻ",
     "ּ", "ֽ", "ֿ", "ׁ", "ׂ", "ׄ", "ׅ", "ׇ", "״", "ۖ", "ۗ", "ۘ", "ۙ",
     "ۚ", "ۛ", "ۜ", "۝", "۟", "۠", "ۡ", "ۢ", "ۣ", "ۤ", "ۥ", "ۦ", "ۧ",
     "ۨ", "۪", "۫", "۬", "ۭ", "ަ", "ާ", "ި", "ީ", "ު", "ޫ", "ެ", "ޭ",
     "ޮ", "ޯ", "ް", "߫", "߬", "߭", "߮", "߯", "߰", "߱", "߲", "߳", "ߴ",
     "ߵ", "ߺ", "߽", "࢈", "࢐", "࢑", "ࢗ", "࢘", "࢙", "࢚", "࢛", "࢜", "࢝",
     "࢞", "࢟", "ࣉ", "࣊", "࣋", "࣌", "࣍", "࣎", "࣏", "࣐", "࣑", "࣒", "࣓",
     "ࣔ", "ࣕ", "ࣖ", "ࣗ", "ࣘ", "ࣙ", "ࣚ", "ࣛ", "ࣜ", "ࣝ", "ࣞ", "ࣟ", "࣠",
     "࣡", "࣢", "ࣣ", "ࣤ", "ࣥ", "ࣦ", "ࣧ", "ࣨ", "ࣩ", "࣪", "࣫", "࣬", "࣭",
     "࣮", "࣯", "ࣰ", "ࣱ", "ࣲ", "ࣳ", "ࣴ", "ࣵ", "ࣶ", "ࣷ", "ࣸ", "ࣹ", "ࣺ",
     "ࣻ", "ࣼ", "ࣽ", "ࣾ", "ࣿ", "ঁ", "়", "ু", "ূ", "ৃ", "ৄ", "্", "ৢ",
     "ৣ", "৾", "ઁ", "ં", "઼", "ુ", "ૂ", "ૃ", "ૄ", "ૅ", "ે", "ૈ", "્",
     "ૢ", "ૣ", "ૺ", "ૻ", "ૼ", "૽", "૾", "૿", "ஂ", "ீ", "்", "ಁ", "಼",
     "ಿ", "ೆ", "ೌ", "್", "ೢ", "ೣ", "ඁ", "්", "ි", "ී", "ු", "ූ", "ັ",
     "ິ", "ີ", "ຶ", "ື", "ຸ", "ູ", "຺", "ົ", "ຼ", "ໆ", "່", "້", "໊",
     "໋", "໌", "ໍ", "໎", "ྀ", "ཱྀ", "ྂ", "ྃ", "྄", "྆", "྇", "ྍ", "ྎ",
     "ྏ", "ྐ", "ྑ", "ྒ", "ྒྷ", "ྔ", "ྕ", "ྖ", "ྗ", "ྙ", "ྚ", "ྛ", "ྜ",
     "ྜྷ", "ྞ", "ྟ", "ྠ", "ྡ", "ྡྷ", "ྣ", "ྤ", "ྥ", "ྦ", "ྦྷ", "ྨ", "ྩ",
     "ྪ", "ྫ", "ྫྷ", "ྭ", "ྮ", "ྯ", "ྰ", "ྱ", "ྲ", "ླ", "ྴ", "ྵ", "ྶ",
     "ྷ", "ྸ", "ྐྵ", "ྺ", "ྻ", "ྼ", "࿆", "ႂ", "ႅ", "ႆ", "ႍ", "ႝ", "ჼ",
     "឴", "឵", "ិ", "ី", "ឹ", "ឺ", "ុ", "ូ", "ួ", "ំ", "៉", "៊", "់",
     "៌", "៍", "៎", "៏", "័", "៑", "្", "៓", "ៗ", "៝", "ᢅ", "ᢆ", "ᢩ",
     "ᪧ", "᪰", "᪱", "᪲", "᪳", "᪴", "᪵", "᪶", "᪷", "᪸", "᪹", "᪺", "᪻",
     "᪼", "᪽", "᪾", "ᪿ", "ᫀ", "᫁", "᫂", "᫃", "᫄", "᫅", "᫆", "᫇", "᫈",
     "᫉", "᫊", "᫋", "ᫌ", "ᫍ", "ᫎ", "᫏", "᫐", "᫑", "᫒", "᫓", "᫔", "᫕",
     "᫖", "᫗", "᫘", "᫙", "᫚", "᫛", "᫜", "᫝", "᫠", "᫡", "᫢", "᫣", "᫤",
     "᫥", "᫦", "᫧", "᫨", "᫩", "᫪", "᫫", "ᮀ", "ᮁ", "ᮢ", "ᮣ", "ᮤ", "ᮥ",
     "ᮨ", "ᮩ", "᮫", "ᮬ", "ᮭ", "᯦", "ᯨ", "ᯩ", "ᯭ", "ᯯ", "ᯰ", "ᯱ", "᳐",
     "᳑", "᳒", "᳔", "᳕", "᳖", "᳗", "᳘", "᳙", "᳚", "᳛", "᳜", "᳝", "᳞",
     "᳟", "᳠", "᳢", "᳣", "᳤", "᳥", "᳦", "᳧", "᳨", "᳭", "᳴", "᳸", "᳹",
     "ᶛ", "ᶜ", "ᶝ", "ᶞ", "ᶟ", "ᶠ", "ᶡ", "ᶢ", "ᶣ", "ᶤ", "ᶥ", "ᶦ", "ᶧ",
     "ᶨ", "ᶩ", "ᶪ", "ᶫ", "ᶬ", "ᶭ", "ᶮ", "ᶯ", "ᶰ", "ᶱ", "ᶲ", "ᶳ", "ᶴ",
     "ᶵ", "ᶶ", "ᶷ", "ᶸ", "ᶹ", "ᶺ", "ᶻ", "ᶼ", "ᶽ", "ᶾ", "ᶿ", "᷀", "᷁",
     "᷂", "᷃", "᷄", "᷅", "᷆", "᷇", "᷈", "᷉", "᷊", "᷋", "᷌", "᷍", "᷎",
     "᷏", "᷐", "᷑", "᷒", "ᷓ", "ᷔ", "ᷕ", "ᷖ", "ᷗ", "ᷘ", "ᷙ", "ᷚ", "ᷛ",
     "ᷜ", "ᷝ", "ᷞ", "ᷟ", "ᷠ", "ᷡ", "ᷢ", "ᷣ", "ᷤ", "ᷥ", "ᷦ", "ᷧ", "ᷨ",
     "ᷩ", "ᷪ", "ᷫ", "ᷬ", "ᷭ", "ᷮ", "ᷯ", "ᷰ", "ᷱ", "ᷲ", "ᷳ", "ᷴ", "᷵",
     "᷶", "᷷", "᷸", "᷹", "᷺", "᷻", "᷼", "᷽", "᷾", "᷿", "᾽", "᾿", "῀",
     "῁", "῍", "῎", "῏", "῝", "῞", "῟", "῭", "΅", "`", "´", "῾", "ₐ",
     "ₑ", "ₒ", "ₓ", "ₔ", "ₕ", "ₖ", "ₗ", "ₘ", "ₙ", "ₚ", "ₛ", "ₜ", "⃐",
     "⃑", "⃒", "⃓", "⃔", "⃕", "⃖", "⃗", "⃘", "⃙", "⃚", "⃛", "⃜", "⃝",
     "⃞", "⃟", "⃠", "⃡", "⃢", "⃣", "⃤", "⃥", "⃦", "⃧", "⃨", "⃩", "⃪",
     "⃫", "⃬", "⃭", "⃮", "⃯", "⃰", "⳯", "⳰", "⳱", "ⷠ", "ⷡ", "ⷢ", "ⷣ",
     "ⷤ", "ⷥ", "ⷦ", "ⷧ", "ⷨ", "ⷩ", "ⷪ", "ⷫ", "ⷬ", "ⷭ", "ⷮ", "ⷯ", "ⷰ",
     "ⷱ", "ⷲ", "ⷳ", "ⷴ", "ⷵ", "ⷶ", "ⷷ", "ⷸ", "ⷹ", "ⷺ", "ⷻ", "ⷼ", "ⷽ",
     "ⷾ", "ⷿ", "゙", "゚", "゛", "゜", "ゝ", "ゞ", "ー", "ヽ", "ヾ", "ꓸ", "ꓹ",
     "ꓺ", "ꓻ", "ꓼ", "ꓽ", "ꚜ", "ꚝ", "ꚞ", "ꚟ", "꛰", "꛱", "ꞈ", "꞉", "꞊",
     "꟱", "ꟲ", "ꟳ", "ꟴ", "ꟸ", "ꟹ", "꣄", "ꣅ", "꣠", "꣡", "꣢", "꣣", "꣤",
     "꣥", "꣦", "꣧", "꣨", "꣩", "꣪", "꣫", "꣬", "꣭", "꣮", "꣯", "꣰", "꣱",
     "ꣿ", "ꦀ", "ꦁ", "ꦂ", "꦳", "ꦶ", "ꦷ", "ꦸ", "ꦹ", "ꦼ", "ꦽ", "ꧏ", "ꧥ",
     "ꧦ", "ꪰ", "ꪲ", "ꪳ", "ꪴ", "ꪷ", "ꪸ", "ꪾ", "꪿", "꫁", "ꫝ", "ꫬ", "ꫭ",
     "ꫳ", "ꫴ", "꫶", "ꯥ", "ꯨ", "꯭", "﮲", "﮳", "﮴", "﮵", "﮶", "﮷", "﮸",
     "﮹", "﮺", "﮻", "﮼", "﮽", "﮾", "﮿", "﯀", "﯁", "﯂", "﻿", "ﾞ", "ﾟ",
     "￣", "￹", "￺", "￻"}

\* The characters of the alphabet with the property Cased and without the
\* property Case_Ignorable.
CasedLetters ==
    {"A", "B", "C", "D", "E", "F", "G", "H", "I", "J", "K", "L", "M",
     "N", "O", "P", "Q", "R", "S", "T", "U", "V", "W", "X", "Y", "Z",
     "a", "b", "c", "d", "e", "f", "g", "h", "i", "j", "k", "l", "m",
     "n", "o", "p", "q", "r", "s", "t", "u", "v", "w", "x", "y", "z",
     "ª", "µ", "º", "À", "Á", "Â", "Ã", "Ä", "Å", "Æ", "Ç", "È", "É",
     "Ê", "Ë", "Ì", "Í", "Î", "Ï", "Ð", "Ñ", "Ò", "Ó", "Ô", "Õ", "Ö",
     "Ø", "Ù", "Ú", "Û", "Ü", "Ý", "Þ", "ß", "à", "á", "â", "ã", "ä",
     "å", "æ", "ç", "è", "é", "ê", "ë", "ì", "í", "î", "ï", "ð", "ñ",
     "ò", "ó", "ô", "õ", "ö", "ø", "ù", "ú", "û", "ü", "ý", "þ", "ÿ",
     "ƀ", "Ɓ", "Ƃ", "ƃ", "Ƅ", "ƅ", "Ɔ", "Ƈ", "ƈ", "Ɖ", "Ɗ", "Ƌ", "ƌ",
     "ƍ", "Ǝ", "Ə", "Ɛ", "Ƒ", "ƒ", "Ɠ", "Ɣ", "ƕ", "Ɩ", "Ɨ", "Ƙ", "ƙ",
     "ƚ", "ƛ", "Ɯ", "Ɲ", "ƞ", "Ɵ", "Ơ", "ơ", "Ƣ", "ƣ", "Ƥ", "ƥ", "Ʀ",
     "Ƨ", "ƨ", "Ʃ", "ƪ", "ƫ", "Ƭ", "ƭ", "Ʈ", "Ư", "ư", "Ʊ", "Ʋ", "Ƴ",
     "ƴ", "Ƶ", "ƶ", "Ʒ", "Ƹ", "ƹ", "ƺ", "Ƽ", "ƽ", "ƾ", "ƿ", "Ǆ", "ǅ",
     "ǆ", "Ǉ", "ǈ", "ǉ", "Ǌ", "ǋ", "ǌ", "Ǎ", "ǎ", "Ǐ", "ǐ", "Ǒ", "ǒ",
     "Ǔ", "ǔ", "Ǖ", "ǖ", "Ǘ", "ǘ", "Ǚ", "ǚ", "Ǜ", "ǜ", "ǝ", "Ǟ", "ǟ",
     "Ǡ", "ǡ", "Ǣ", "ǣ", "Ǥ", "ǥ", "Ǧ", "ǧ", "Ǩ", "ǩ", "Ǫ", "ǫ", "Ǭ",
     "ǭ", "Ǯ", "ǯ", "ǰ", "Ǳ", "ǲ", "ǳ", "Ǵ", "ǵ", "Ƕ", "Ƿ", "Ǹ", "ǹ",
     "Ǻ", "ǻ", "Ǽ", "ǽ", "Ǿ", "ǿ", "ʀ", "ʁ", "ʂ", "ʃ", "ʄ", "ʅ", "ʆ",
     "ʇ", "ʈ", "ʉ", "ʊ", "ʋ", "ʌ", "ʍ", "ʎ", "ʏ", "ʐ", "ʑ", "ʒ", "ʓ",
     "ʖ", "ʗ", "ʘ", "ʙ", "ʚ", "ʛ", "ʜ", "ʝ", "ʞ", "ʟ", "ʠ", "ʡ", "ʢ",
     "ʣ", "ʤ", "ʥ", "ʦ", "ʧ", "ʨ", "ʩ", "ʪ", "ʫ", "ʬ", "ʭ", "ʮ", "ʯ",
     "Ά", "Έ", "Ή", "Ί", "Ό", "Ύ", "Ώ", "ΐ", "Α", "Β", "Γ", "Δ", "Ε",
     "Ζ", "Η", "Θ", "Ι", "Κ", "Λ", "Μ", "Ν", "Ξ", "Ο", "Π", "Ρ", "Σ",
     "Τ", "Υ", "Φ", "Χ", "Ψ", "Ω", "Ϊ", "Ϋ", "ά", "έ", "ή", "ί", "ΰ",
     "α", "β", "γ", "δ", "ε", "ζ", "η", "θ", "ι", "κ", "λ", "μ", "ν",
     "ξ", "ο", "π", "ρ", "ς", "σ", "τ", "υ", "φ", "χ", "ψ", "ω", "ϊ",
     "ϋ", "ό", "ύ", "ώ", "Ϗ", "ϐ", "ϑ", "ϒ", "ϓ", "ϔ", "ϕ", "ϖ", "ϗ",
     "Ϙ", "ϙ", "Ϛ", "ϛ", "Ϝ", "ϝ", "Ϟ", "ϟ", "Ϡ", "ϡ", "Ϣ", "ϣ", "Ϥ",
     "ϥ", "Ϧ", "ϧ", "Ϩ", "ϩ", "Ϫ", "ϫ", "Ϭ", "ϭ", "Ϯ", "ϯ", "ϰ", "ϱ",
     "ϲ", "ϳ", "ϴ", "ϵ", "Ϸ", "ϸ", "Ϲ", "Ϻ", "ϻ", "ϼ", "Ͻ", "Ͼ", "Ͽ",
     "Ҁ", "ҁ", "Ҋ", "ҋ", "Ҍ", "ҍ", "Ҏ", "ҏ", "Ґ", "ґ", "Ғ", "ғ", "Ҕ",
     "ҕ", "Җ", "җ", "Ҙ", "ҙ", "Қ", "қ", "Ҝ", "ҝ", "Ҟ", "ҟ", "Ҡ", "ҡ",
     "Ң", "ң", "Ҥ", "ҥ", "Ҧ", "ҧ", "Ҩ", "ҩ", "Ҫ", "ҫ", "Ҭ", "ҭ", "Ү",
     "ү", "Ұ", "ұ", "Ҳ", "ҳ", "Ҵ", "ҵ", "Ҷ", "ҷ", "Ҹ", "ҹ", "Һ", "һ",
     "Ҽ", "ҽ", "Ҿ", "ҿ", "Ӏ", "Ӂ", "ӂ", "Ӄ", "ӄ", "Ӆ", "ӆ", "Ӈ", "ӈ",
     "Ӊ", "ӊ", "Ӌ", "ӌ", "Ӎ", "ӎ", "ӏ", "Ӑ", "ӑ", "Ӓ", "ӓ", "Ӕ", "ӕ",
     "Ӗ", "ӗ", "Ә", "ә", "Ӛ", "ӛ", "Ӝ", "ӝ", "Ӟ", "ӟ", "Ӡ", "ӡ", "Ӣ",
     "ӣ", "Ӥ", "ӥ", "Ӧ", "ӧ", "Ө", "ө", "Ӫ", "ӫ", "Ӭ", "ӭ", "Ӯ", "ӯ",
     "Ӱ", "ӱ", "Ӳ", "ӳ", "Ӵ", "ӵ", "Ӷ", "ӷ", "Ӹ", "ӹ", "Ӻ", "ӻ", "Ӽ",
     "ӽ", "Ӿ", "ӿ", "ր", "ց", "ւ", "փ", "ք", "օ", "ֆ", "և", "ֈ", "Ⴀ",
     "Ⴁ", "Ⴂ", "Ⴃ", "Ⴄ", "Ⴅ", "Ⴆ", "Ⴇ", "Ⴈ", "Ⴉ", "Ⴊ", "Ⴋ", "Ⴌ", "Ⴍ",
     "Ⴎ", "Ⴏ", "Ⴐ", "Ⴑ", "Ⴒ", "Ⴓ", "Ⴔ", "Ⴕ", "Ⴖ", "Ⴗ", "Ⴘ", "Ⴙ", "Ⴚ",
     "Ⴛ", "Ⴜ", "Ⴝ", "Ⴞ", "Ⴟ", "Ⴠ", "Ⴡ", "Ⴢ", "Ⴣ", "Ⴤ", "Ⴥ", "Ⴧ", "Ⴭ",
     "ა", "ბ", "გ", "დ", "ე", "ვ", "ზ", "თ", "ი", "კ", "ლ", "მ", "ნ",
     "ო", "პ", "ჟ", "რ", "ს", "ტ", "უ", "ფ", "ქ", "ღ", "ყ", "შ", "ჩ",
     "ც", "ძ", "წ", "ჭ", "ხ", "ჯ", "ჰ", "ჱ", "ჲ", "ჳ", "ჴ", "ჵ", "ჶ",
     "ჷ", "ჸ", "ჹ", "ჺ", "ჽ", "ჾ", "ჿ", "Ꭰ", "Ꭱ", "Ꭲ", "Ꭳ", "Ꭴ", "Ꭵ",
     "Ꭶ", "Ꭷ", "Ꭸ", "Ꭹ", "Ꭺ", "Ꭻ", "Ꭼ", "Ꭽ", "Ꭾ", "Ꭿ", "Ꮀ", "Ꮁ", "Ꮂ",
     "Ꮃ", "Ꮄ", "Ꮅ", "Ꮆ", "Ꮇ", "Ꮈ", "Ꮉ", "Ꮊ", "Ꮋ", "Ꮌ", "Ꮍ", "Ꮎ", "Ꮏ",
     "Ꮐ", "Ꮑ", "Ꮒ", "Ꮓ", "Ꮔ", "Ꮕ", "Ꮖ", "Ꮗ", "Ꮘ", "Ꮙ", "Ꮚ", "Ꮛ", "Ꮜ",
     "Ꮝ", "Ꮞ", "Ꮟ", "Ꮠ", "Ꮡ", "Ꮢ", "Ꮣ", "Ꮤ", "Ꮥ", "Ꮦ", "Ꮧ", "Ꮨ", "Ꮩ",
     "Ꮪ", "Ꮫ", "Ꮬ", "Ꮭ", "Ꮮ", "Ꮯ", "Ꮰ", "Ꮱ", "Ꮲ", "Ꮳ", "Ꮴ", "Ꮵ", "Ꮶ",
     "Ꮷ", "Ꮸ", "Ꮹ", "Ꮺ", "Ꮻ", "Ꮼ", "Ꮽ", "Ꮾ", "Ꮿ", "Ᏸ", "Ᏹ", "Ᏺ", "Ᏻ",
     "Ᏼ", "Ᏽ", "ᏸ", "ᏹ", "ᏺ", "ᏻ", "ᏼ", "ᏽ", "ᲀ", "ᲁ", "ᲂ", "ᲃ", "ᲄ",
     "ᲅ", "ᲆ", "ᲇ", "ᲈ", "Ᲊ", "ᲊ", "Ა", "Ბ", "Გ", "Დ", "Ე", "Ვ", "Ზ",
     "Თ", "Ი", "Კ", "Ლ", "Მ", "Ნ", "Ო", "Პ", "Ჟ", "Რ", "Ს", "Ტ", "Უ",
     "Ფ", "Ქ", "Ღ", "Ყ", "Შ", "Ჩ", "Ც", "Ძ", "Წ", "Ჭ", "Ხ", "Ჯ", "Ჰ",
     "Ჱ", "Ჲ", "Ჳ", "Ჴ", "Ჵ", "Ჶ", "Ჷ", "Ჸ", "Ჹ", "Ჺ", "Ჽ", "Ჾ", "Ჿ",
     "ᶀ", "ᶁ", "ᶂ", "ᶃ", "ᶄ", "ᶅ", "ᶆ", "ᶇ", "ᶈ", "ᶉ", "ᶊ", "ᶋ", "ᶌ",
     "ᶍ", "ᶎ", "ᶏ", "ᶐ", "ᶑ", "ᶒ", "ᶓ", "ᶔ", "ᶕ", "ᶖ", "ᶗ", "ᶘ", "ᶙ",
     "ᶚ", "Ẁ", "ẁ", "Ẃ", "ẃ", "Ẅ", "ẅ", "Ẇ", "ẇ", "Ẉ", "ẉ", "Ẋ", "ẋ",
     "Ẍ", "ẍ", "Ẏ", "ẏ", "Ẑ", "ẑ", "Ẓ", "ẓ", "Ẕ", "ẕ", "ẖ", "ẗ", "ẘ",
     "ẙ", "ẚ", "ẛ", "ẜ", "ẝ", "ẞ", "ẟ", "Ạ", "ạ", "Ả", "ả", "Ấ", "ấ",
     "Ầ", "ầ", "Ẩ", "ẩ", "Ẫ", "ẫ", "Ậ", "ậ", "Ắ", "ắ", "Ằ", "ằ", "Ẳ",
     "ẳ", "Ẵ", "ẵ", "Ặ", "ặ", "Ẹ", "ẹ", "Ẻ", "ẻ", "Ẽ", "ẽ", "Ế", "ế",
     "Ề", "ề", "Ể", "ể", "Ễ", "ễ", "Ệ", "ệ", "Ỉ", "ỉ", "Ị", "ị", "Ọ",
     "ọ", "Ỏ", "ỏ", "Ố", "ố", "Ồ", "ồ", "Ổ", "ổ", "Ỗ", "ỗ", "Ộ", "ộ",
     "Ớ", "ớ", "Ờ", "ờ", "Ở", "ở", "Ỡ", "ỡ", "Ợ", "ợ", "Ụ", "ụ", "Ủ",
     "ủ", "Ứ", "ứ", "Ừ", "ừ", "Ử", "ử", "Ữ", "ữ", "Ự", "ự", "Ỳ", "ỳ",
     "Ỵ", "ỵ", "Ỷ", "ỷ", "Ỹ", "ỹ", "Ỻ", "ỻ", "Ỽ", "ỽ", "Ỿ", "ỿ", "ᾀ",
     "ᾁ", "ᾂ", "ᾃ", "ᾄ", "ᾅ", "ᾆ", "ᾇ", "ᾈ", "ᾉ", "ᾊ", "ᾋ", "ᾌ", "ᾍ",
     "ᾎ", "ᾏ", "ᾐ", "ᾑ", "ᾒ", "ᾓ", "ᾔ", "ᾕ", "ᾖ", "ᾗ", "ᾘ", "ᾙ", "ᾚ",
     "ᾛ", "ᾜ", "ᾝ", "ᾞ", "ᾟ", "ᾠ", "ᾡ", "ᾢ", "ᾣ", "ᾤ", "ᾥ", "ᾦ", "ᾧ",
     "ᾨ", "ᾩ", "ᾪ", "ᾫ", "ᾬ", "ᾭ", "ᾮ", "ᾯ", "ᾰ", "ᾱ", "ᾲ", "ᾳ", "ᾴ",
     "ᾶ", "ᾷ", "Ᾰ", "Ᾱ", "Ὰ", "Ά", "ᾼ", "ι", "ῂ", "ῃ", "ῄ", "ῆ", "ῇ",
     "Ὲ", "Έ", "Ὴ", "Ή", "ῌ", "ῐ", "ῑ", "ῒ", "ΐ", "ῖ", "ῗ", "Ῐ", "Ῑ",
     "Ὶ", "Ί", "ῠ", "ῡ", "ῢ", "ΰ", "ῤ", "ῥ", "ῦ", "ῧ", "Ῠ", "Ῡ", "Ὺ",
     "Ύ", "Ῥ", "ῲ", "ῳ", "ῴ", "ῶ", "ῷ", "Ὸ", "Ό", "Ὼ", "Ώ", "ῼ", "Ↄ",
     "ↄ", "Ⓐ", "Ⓑ", "Ⓒ", "Ⓓ", "Ⓔ", "Ⓕ", "Ⓖ", "Ⓗ", "Ⓘ", "Ⓙ", "Ⓚ", "Ⓛ",
     "Ⓜ", "Ⓝ", "Ⓞ", "Ⓟ", "Ⓠ", "Ⓡ", "Ⓢ", "Ⓣ", "Ⓤ", "Ⓥ", "Ⓦ", "Ⓧ", "Ⓨ",
     "Ⓩ", "ⓐ", "ⓑ", "ⓒ", "ⓓ", "ⓔ", "ⓕ", "ⓖ", "ⓗ", "ⓘ", "ⓙ", "ⓚ", "ⓛ",
     "ⓜ", "ⓝ", "ⓞ", "ⓟ", "ⓠ", "ⓡ", "ⓢ", "ⓣ", "ⓤ", "ⓥ", "ⓦ", "ⓧ", "ⓨ",
     "ⓩ", "Ⲁ", "ⲁ", "Ⲃ", "ⲃ", "Ⲅ", "ⲅ", "Ⲇ", "ⲇ", "Ⲉ", "ⲉ", "Ⲋ", "ⲋ",
     "Ⲍ", "ⲍ", "Ⲏ", "ⲏ", "Ⲑ", "ⲑ", "Ⲓ", "ⲓ", "Ⲕ", "ⲕ", "Ⲗ", "ⲗ", "Ⲙ",
     "ⲙ", "Ⲛ", "ⲛ", "Ⲝ", "ⲝ", "Ⲟ", "ⲟ", "Ⲡ", "ⲡ", "Ⲣ", "ⲣ", "Ⲥ", "ⲥ",
     "Ⲧ", "ⲧ", "Ⲩ", "ⲩ", "Ⲫ", "ⲫ", "Ⲭ", "ⲭ", "Ⲯ", "ⲯ", "Ⲱ", "ⲱ", "Ⲳ",
     "ⲳ", "Ⲵ", "ⲵ", "Ⲷ", "ⲷ", "Ⲹ", "ⲹ", "Ⲻ", "ⲻ", "Ⲽ", "ⲽ", "Ⲿ", "ⲿ",
     "Ⳁ", "ⳁ", "Ⳃ", "ⳃ", "Ⳅ", "ⳅ", "Ⳇ", "ⳇ", "Ⳉ", "ⳉ", "Ⳋ", "ⳋ", "Ⳍ",
     "ⳍ", "Ⳏ", "ⳏ", "Ⳑ", "ⳑ", "Ⳓ", "ⳓ", "Ⳕ", "ⳕ", "Ⳗ", "ⳗ", "Ⳙ", "ⳙ",
     "Ⳛ", "ⳛ", "Ⳝ", "ⳝ", "Ⳟ", "ⳟ", "Ⳡ", "ⳡ", "Ⳣ", "ⳣ", "ⳤ", "Ⳬ", "ⳬ",
     "Ⳮ", "ⳮ", "Ⳳ", "ⳳ", "Ꚁ", "ꚁ", "Ꚃ", "ꚃ", "Ꚅ", "ꚅ", "Ꚇ", "ꚇ", "Ꚉ",
     "ꚉ", "Ꚋ", "ꚋ", "Ꚍ", "ꚍ", "Ꚏ", "ꚏ", "Ꚑ", "ꚑ", "Ꚓ", "ꚓ", "Ꚕ", "ꚕ",
     "Ꚗ", "ꚗ", "Ꚙ", "ꚙ", "Ꚛ", "ꚛ", "Ꞁ", "ꞁ", "Ꞃ", "ꞃ", "Ꞅ", "ꞅ", "Ꞇ",
     "ꞇ", "Ꞌ", "ꞌ", "Ɥ", "ꞎ", "Ꞑ", "ꞑ", "Ꞓ", "ꞓ", "ꞔ", "ꞕ", "Ꞗ", "ꞗ",
     "Ꞙ", "ꞙ", "Ꞛ", "ꞛ", "Ꞝ", "ꞝ", "Ꞟ", "ꞟ", "Ꞡ", "ꞡ", "Ꞣ", "ꞣ", "Ꞥ",
     "ꞥ", "Ꞧ", "ꞧ", "Ꞩ", "ꞩ", "Ɦ", "Ɜ", "Ɡ", "Ɬ", "Ɪ", "ꞯ", "Ʞ", "Ʇ",
     "Ʝ", "Ꭓ", "Ꞵ", "ꞵ", "Ꞷ", "ꞷ", "Ꞹ", "ꞹ", "Ꞻ", "ꞻ", "Ꞽ", "ꞽ", "Ꞿ",
     "ꞿ", "Ꟁ", "ꟁ", "Ꟃ", "ꟃ", "Ꞔ", "Ʂ", "Ᶎ", "Ꟈ", "ꟈ", "Ꟊ", "ꟊ", "Ɤ",
     "Ꟍ", "ꟍ", "꟎", "꟏", "Ꟑ", "ꟑ", "꟒", "ꟓ", "꟔", "ꟕ", "Ꟗ", "ꟗ", "Ꟙ",
     "ꟙ", "Ꟛ", "ꟛ", "Ƛ", "Ꟶ", "ꟶ", "ꟺ", "ꮀ", "ꮁ", "ꮂ", "ꮃ", "ꮄ", "ꮅ",
     "ꮆ", "ꮇ", "ꮈ", "ꮉ", "ꮊ", "ꮋ", "ꮌ", "ꮍ", "ꮎ", "ꮏ", "ꮐ", "ꮑ", "ꮒ",
     "ꮓ", "ꮔ", "ꮕ", "ꮖ", "ꮗ", "ꮘ", "ꮙ", "ꮚ", "ꮛ", "ꮜ", "ꮝ", "ꮞ", "ꮟ",
     "ꮠ", "ꮡ", "ꮢ", "ꮣ", "ꮤ", "ꮥ", "ꮦ", "ꮧ", "ꮨ", "ꮩ", "ꮪ", "ꮫ", "ꮬ",
     "ꮭ", "ꮮ", "ꮯ", "ꮰ", "ꮱ", "ꮲ", "ꮳ", "ꮴ", "ꮵ", "ꮶ", "ꮷ", "ꮸ", "ꮹ",
     "ꮺ", "ꮻ", "ꮼ", "ꮽ", "ꮾ", "ꮿ", "U+0253", "U+0254", "U+0256", "U+0257", "U+0259", "U+025B", "U+025C",
     "U+0260", "U+0261", "U+0263", "U+0264", "U+0265", "U+0266", "U+0268", "U+0269", "U+026A", "U+026C", "U+026F", "U+0272", "U+0275",
     "U+037B", "U+037C", "U+037D", "U+1F70", "U+1F71", "U+1F72", "U+1F73", "U+1F74", "U+1F75", "U+1F76", "U+1F77", "U+1F78", "U+1F79",
     "U+1F7A", "U+1F7B", "U+1F7C", "U+1F7D", "U+2D00", "U+2D01", "U+2D02", "U+2D03", "U+2D04", "U+2D05", "U+2D06", "U+2D07", "U+2D08",
     "U+2D09", "U+2D0A", "U+2D0B", "U+2D0C", "U+2D0D", "U+2D0E", "U+2D0F", "U+2D10", "U+2D11", "U+2D12", "U+2D13", "U+2D14", "U+2D15",
     "U+2D16", "U+2D17", "U+2D18", "U+2D19", "U+2D1A", "U+2D1B", "U+2D1C", "U+2D1D", "U+2D1E", "U+2D1F", "U+2D20", "U+2D21", "U+2D22",
     "U+2D23", "U+2D24", "U+2D25", "U+2D27", "U+2D2D", "U+AB53", "U+AB70", "U+AB71", "U+AB72", "U+AB73", "U+AB74", "U+AB75", "U+AB76",
     "U+AB77", "U+AB78", "U+AB79", "U+AB7A", "U+AB7B", "U+AB7C", "U+AB7D", "U+AB7E", "U+AB7F"}

\* Whether the first character that is not case-ignorable, from position pos
\* on in the direction of step, is a cased letter.
RECURSIVE CasedNext(_, _, _)
CasedNext(str, pos, step) ==
    IF pos < 1 \/ pos > Len(str) THEN FALSE
    ELSE IF str[pos] \in CaseIgnorable THEN CasedNext(str, pos + step, step)
    ELSE str[pos] \in CasedLetters

\* The condition Final_Sigma: a cased letter stands before position pos and
\* none after it, case-ignorable characters passed over.
FinalSigma(str, pos) == CasedNext(str, pos - 1, -1) /\ ~CasedNext(str, pos + 1, 1)

\* String.prototype.toLowerCase: a capital sigma at the end of a word becomes
\* the final sigma.
ToLowerCase(str) ==
    [q \in 1..Len(str) |->
       IF str[q] = "Σ" /\ FinalSigma(str, q) THEN "ς" ELSE ToLowerChar(str[q])]

\* str.split(/\s+/): the pieces between maximal runs of whitespace, empty
\* pieces at either end included.  cur is the piece being read, inRun tells
\* that the previous character was whitespace.
RECURSIVE SplitFrom(_, _, _, _, _)
SplitFrom(str, pos, cur, inRun, acc) ==
    IF pos > Len(str) THEN Append(acc, cur)
    ELSE IF str[pos] \in Whitespace
         THEN IF inRun
              THEN SplitFrom(str, pos + 1, cur, TRUE, acc)
              ELSE SplitFrom(str, pos + 1, <<>>, TRUE, Append(acc, cur))
         ELSE SplitFrom(str, pos + 1, Append(cur, str[pos]), FALSE, acc)

SplitWhitespace(str) == SplitFrom(str, 1, <<>>, FALSE, <<>>)

\* new Set(str.split(/\s+/).filter(w => w.length > 0))
WordSet(str) ==
    LET parts == SplitWhitespace(str)
    IN  {parts[q] : q \in {r \in 1..Len(parts) : Len(parts[r]) > 0}}

\* The class \w of a regular expression.
WordChars ==
    {"A", "B", "C", "D", "E", "F", "G", "H", "I", "J", "K", "L", "M", "N", "O", "P", "Q", "R", "S", "T", "U", "V", "W", "X", "Y", "Z",
     "a", "b", "c", "d", "e", "f", "g", "h", "i", "j", "k", "l", "m", "n", "o", "p", "q", "r", "s", "t", "u", "v", "w", "x", "y", "z",
     "0", "1", "2", "3", "4", "5", "6", "7", "8", "9", "_"}

\* The first position at or after pos whose character is not in S (inside),
\* or is in S (~inside): the end of a greedy run.
RECURSIVE RunEnd(_, _, _, _)
RunEnd(str, pos, S, inside) ==
    IF pos <= Len(str) /\ ((str[pos] \in S) = inside)
    THEN RunEnd(str, pos + 1, S, inside)
    ELSE pos

\* The last position at or before pos whose character is not whitespace.
RECURSIVE RunStart(_, _)
RunStart(str, pos) ==
    IF pos >= 1 /\ str[pos] \in Whitespace THEN RunStart(str, pos - 1) ELSE pos

\* String.prototype.trim.
Trim(str) == SubSeq(str, RunEnd(str, 1, Whitespace, TRUE), RunStart(str, Len(str)))

StartsWith(str, pos, prefix) ==
    /\ pos + Len(prefix) - 1 <= Len(str)
    /\ SubSeq(str, pos, pos + Len(prefix) - 1) = prefix

\* cleaning.ts, replace(/@\w+/g, "") and replace(/#\w+/g, ""): mark is "@" or
\* "#"; a mark no word character follows stays.
RECURSIVE RemoveTagged(_, _, _)
RemoveTagged(str, mark, pos) ==
    IF pos > Len(str) THEN <<>>
    ELSE LET end == RunEnd(str, pos + 1, WordChars, TRUE)
         IN  IF str[pos] = mark /\ end > pos + 1
             THEN RemoveTagged(str, mark, end)
             ELSE <<str[pos]>> \o RemoveTagged(str, mark, pos + 1)

IsWordAt(str, pos) == pos >= 1 /\ pos <= Len(str) /\ str[pos] \in WordChars

\* cleaning.ts, replace(/\bRT\b:?\s?/g, ""): RT between two word boundaries,
\* with the colon and the one whitespace character that may follow.
RECURSIVE RemoveRetweet(_, _)
RemoveRetweet(str, pos) ==
    IF pos > Len(str) THEN <<>>
    ELSE IF /\ StartsWith(str, pos, <<"R", "T">>)
            /\ ~IsWordAt(str, pos - 1)
            /\ ~IsWordAt(str, pos + 2)
         THEN LET colon == IF StartsWith(str, pos + 2, <<":">>) THEN pos + 3 ELSE pos + 2
                  space == IF colon <= Len(str) /\ str[colon] \in Whitespace
                           THEN colon + 1 ELSE colon
              IN  RemoveRetweet(str, space)
         ELSE <<str[pos]>> \o RemoveRetweet(str, pos + 1)

\* cleaning.ts, replace(/https?:\/\/\S+/g, ""); body is the position after the
\* scheme, 0 when no scheme starts at pos.
RECURSIVE RemoveUrls(_, _)
RemoveUrls(str, pos) ==
    IF pos > Len(str) THEN <<>>
    ELSE LET body == IF StartsWith(str, pos, <<"h", "t", "t", "p", "s", ":", "/", "/">>)
                     THEN pos + 8
                     ELSE IF StartsWith(str, pos, <<"h", "t", "t", "p", ":", "/", "/">>)
                     THEN pos + 7
                     ELSE 0
             end == RunEnd(str, body, Whitespace, FALSE)
         IN  IF body > 0 /\ end > body
             THEN RemoveUrls(str, end)
             ELSE <<str[pos]>> \o RemoveUrls(str, pos + 1)

\* cleaning.ts, replace(/\s{2,}/g, " ").
RECURSIVE CollapseSpaces(_, _)
CollapseSpaces(str, pos) ==
    IF pos > Len(str) THEN <<>>
    ELSE LET end == RunEnd(str, pos, Whitespace, TRUE)
         IN  IF end - pos >= 2
             THEN <<" ">> \o CollapseSpaces(str, end)
             ELSE <<str[pos]>> \o CollapseSpaces(str, pos + 1)

\* cleaning.ts: mentions, hashtags, the retweet mark and URLs are removed, in
\* this order, then runs of whitespace are collapsed and the ends trimmed.
cleanTweet(text) ==
    LET noMentions == RemoveTagged(text, "@", 1)
        noHashtags == RemoveTagged(noMentions, "#", 1)
        noRetweet == RemoveRetweet(noHashtags, 1)
        noUrls == RemoveUrls(noRetweet, 1)
    IN  Trim(CollapseSpaces(noUrls, 1))

\* The JavaScript quotient a / b of two integers.
SmallQuotients ==
    [a \in 0..MaxSmall, b \in 0..MaxSmall |-> NumDiv(Int2Num(a), Int2Num(b))]

IntDiv(a, b) ==
    IF <<a, b>> \in DOMAIN SmallQuotients THEN SmallQuotients[a, b]
    ELSE NumDiv(Int2Num(a), Int2Num(b))

\* Lines 4-14.
tweetDistance(tweet1, tweet2) ==
    LET words1 == WordSet(ToLowerCase(tweet1))
        words2 == WordSet(ToLowerCase(tweet2))
        commonWords == {w \in words1 : w \in words2}
        totalWords == Cardinality(words1) + Cardinality(words2)
    IN  IF totalWords = 0 THEN Int2Num(1)
        ELSE IntDiv(totalWords - Cardinality(commonWords), totalWords)

Str_i_love_this == <<"i", " ", "l", "o", "v", "e", " ", "t", "h", "i", "s">>

Str_i_hate_this == <<"i", " ", "h", "a", "t", "e", " ", "t", "h", "i", "s">>

\* A retweet with a mention, a tab, a hashtag and a link: cleaned to "Love",
\* a tab, "it".
Str_RT_Love_it ==
    <<"R", "T", " ", "@", "b", "o", "b", " ", "L", "o", "v", "e", "\t",
      "i", "t", " ", "#", "f", "u", "n", " ", "h", "t", "t", "p", ":", "/",
      "/", "t", ".", "c", "o", "/", "x">>

SampleTexts == {Str_i_love_this, Str_i_hate_this, Str_RT_Love_it}

\* tweetDistance is pure: its values over the cleaned sample texts, computed
\* once.
createDistanceMatrix(tw) ==
    LET dist == [i \in 1..Len(tw) |->
                   [j \in (i + 1)..Len(tw) |->
                      tweetDistance(tw[i].cleaned, tw[j].cleaned)]]
    IN  [r \in 1..Len(tw) |->
           [c \in 1..Len(tw) |->
              IF r = c THEN Int2Num(0)
              ELSE IF r < c THEN dist[r][c] ELSE dist[c][r]]]

----------------------------------------------------------------------------
(* hierarchicalClustering *)

Methods == {"average", "complete", "ward"}

n == Len(distanceMatrix)

\* Array.from(active): the Set was filled with 0..n-1 in ascending order and
\* only ever loses elements, so it iterates in ascending order.
RECURSIVE SortedSeq(_)
SortedSeq(S) ==
    IF S = {} THEN <<>>
    ELSE LET m == CHOOSE x \in S : \A y \in S : x <= y
         IN  <<m>> \o SortedSeq(S \ {m})

activeArray == SortedSeq(active)

\* The scan with <= in place of <: the last closest pair wins.
RECURSIVE ScanPairsLastMin(_, _, _, _, _)
ScanPairsLastMin(arr, dist, i, j, st) ==
    IF i >= Len(arr) THEN st
    ELSE IF j >= Len(arr) THEN ScanPairsLastMin(arr, dist, i + 1, i + 2, st)
    ELSE LET ci == At(arr, i)
             cj == At(arr, j)
             d  == At(At(dist, ci), cj)
             nx == IF LessEq(d, st.minDist)
                   THEN [minDist |-> d, minI |-> ci, minJ |-> cj]
                   ELSE st
         IN  ScanPairsLastMin(arr, dist, i, j + 1, nx)

\* Lines 70-85: the closest-pair scan, one comparison per visited pair.
\* st = [minDist, minI, minJ]; i and j are positions in arr (0-based).
RECURSIVE ScanPairs(_, _, _, _, _)
ScanPairs(arr, dist, i, j, st) ==
    IF i >= Len(arr) THEN st
    ELSE IF j >= Len(arr) THEN ScanPairs(arr, dist, i + 1, i + 2, st)
    ELSE LET ci == At(arr, i)
             cj == At(arr, j)
             d  == At(At(dist, ci), cj)
             nx == IF Less(d, st.minDist)
                   THEN [minDist |-> d, minI |-> ci, minJ |-> cj]
                   ELSE st
         IN  ScanPairs(arr, dist, i, j + 1, nx)

FindMin(arr, dist) ==
    ScanPairs(arr, dist, 0, 1, [minDist |-> Infinity, minI |-> -1, minJ |-> -1])

\* Lines 110-112.
AverageLinkage(a, b, si, sj) ==
    NumDiv(NumAdd(NumMul(a, Int2Num(si)), NumMul(b, Int2Num(sj))),
           Int2Num(si + sj))

\* The smaller of the two distances (single linkage).
CompleteLinkageMin(a, b) ==
    IF IsNaN(a) \/ IsNaN(b) THEN NaN
    ELSE IF Less(a, b) THEN a ELSE b

\* Line 115: Math.max.
CompleteLinkage(a, b) ==
    IF IsNaN(a) \/ IsNaN(b) THEN NaN
    ELSE IF Less(a, b) THEN b ELSE a

\* The ward numerator with its terms subtracted the wrong way round.
WardLinkageReversed(a, b, c, si, sj, sk) ==
    Sqrt(NumDiv(NumSub(NumMul(NumMul(Int2Num(sk), c), c),
                       NumAdd(NumMul(NumMul(Int2Num(si + sk), a), a),
                              NumMul(NumMul(Int2Num(sj + sk), b), b))),
                Int2Num(si + sj + sk)))

\* Lines 118-123, each product and sum in the order the expression is
\* evaluated: ((si + sk) * a) * a + ((sj + sk) * b) * b - (sk * c) * c.
WardLinkage(a, b, c, si, sj, sk) ==
    Sqrt(NumDiv(NumSub(NumAdd(NumMul(NumMul(Int2Num(si + sk), a), a),
                              NumMul(NumMul(Int2Num(sj + sk), b), b)),
                       NumMul(NumMul(Int2Num(sk), c), c)),
                Int2Num(si + sj + sk)))

\* Lines 107-124: the distance from the merged cluster to k.
NewDist(meth, dist, sizes, minI, minJ, k) ==
    LET a == At(At(dist, minI), k)
        b == At(At(dist, minJ), k)
        c == At(At(dist, minI), minJ)
    IN  IF meth = "average"
        THEN AverageLinkage(a, b, At(sizes, minI), At(sizes, minJ))
        ELSE IF meth = "complete"
        THEN CompleteLinkage(a, b)
        ELSE WardLinkage(a, b, c, At(sizes, minI), At(sizes, minJ), At(sizes, k))

\* Lines 126-127: the new distance is written at [minI][k] and at [k][minI].
WriteDistance(dist, minI, k, newDist) ==
    [dist EXCEPT ![minI + 1][k + 1] = newDist, ![k + 1][minI + 1] = newDist]

RECURSIVE UpdateLoop(_, _, _, _, _, _, _)
\* Lines 104-128: the loop over the active clusters, in the order of the set;
\* minJ has left the set and minI is passed over.
UpdateLoop(meth, dist, sizes, ks, pos, minI, minJ) ==
    IF pos > Len(ks) THEN dist
    ELSE IF ks[pos] = minI \/ ks[pos] = minJ
    THEN UpdateLoop(meth, dist, sizes, ks, pos + 1, minI, minJ)
    ELSE UpdateLoop(meth,
                    WriteDistance(dist, minI, ks[pos],
                                  NewDist(meth, dist, sizes, minI, minJ, ks[pos])),
                    sizes, ks, pos + 1, minI, minJ)

UpdateDistances(meth, dist, sizes, act, minI, minJ) ==
    UpdateLoop(meth, dist, sizes, SortedSeq(act), 1, minI, minJ)

\* Both merged inputs leave the active set.
RetireBoth(act, minI, minJ) == act \ {minI, minJ}

\* Line 101: active.delete(minJ); minI stays and stands for the merged cluster.
Retire(act, minI, minJ) == act \ {minJ}

\* A record that counts the absorbed cluster as a single document.
NewClusterPlusOne(minI, minJ, minDist, sizes) ==
    [left |-> minI, right |-> minJ, distance |-> minDist,
     count |-> At(sizes, minI) + 1]

\* Lines 90-95.
NewCluster(minI, minJ, minDist, sizes) ==
    [left |-> minI, right |-> minJ, distance |-> minDist,
     count |-> At(sizes, minI) + At(sizes, minJ)]

\* The row objects of the caller's matrix: row r lives at address r.
RowsOf(matrix) == [r \in 1..Len(matrix) |-> r]

\* [...distanceMatrix]: a new outer array over the caller's own rows.
CopyRowsShallow(rows) == rows

\* Line 66: distanceMatrix.map(row => [...row]) makes a new row object for
\* every row, at addresses no other array holds.
CopyRows(rows) == [r \in 1..Len(rows) |-> Len(rows) + r]

\* What the caller's matrix holds once rows of the working matrix have been
\* written: a row object both arrays hold shows the written row.
SeenByCaller(matrix, rows, written, writtenRows) ==
    [r \in 1..Len(matrix) |->
       IF \E w \in 1..Len(writtenRows) : writtenRows[w] = rows[r]
       THEN written[CHOOSE w \in 1..Len(writtenRows) : writtenRows[w] = rows[r]]
       ELSE matrix[r]]

\* An entry that starts the dendrogram with a record for the whole input.
EnterClusteringWithRoot(matrix, meth) ==
    /\ distanceMatrix' = matrix
    /\ method' = meth
    /\ distances' = matrix
    /\ matrixRows' = RowsOf(matrix)
    /\ distancesRows' = CopyRows(RowsOf(matrix))
    /\ active' = {i \in 0..(Len(matrix) - 1) : TRUE}
    /\ clusterSizes' = [i \in 1..Len(matrix) |-> 1]
    /\ clusters' = <<[left |-> 0, right |-> 0, distance |-> Int2Num(0),
                      count |-> Len(matrix)]>>

\* Lines 60-66: the state on entry to the loop.
EnterClustering(matrix, meth) ==
    /\ distanceMatrix' = matrix
    /\ method' = meth
    /\ distances' = matrix
    /\ matrixRows' = RowsOf(matrix)
    /\ distancesRows' = CopyRows(RowsOf(matrix))
    /\ active' = {i \in 0..(Len(matrix) - 1) : TRUE}
    /\ clusterSizes' = [i \in 1..Len(matrix) |-> 1]
    /\ clusters' = <<>>

\* One iteration of the while loop that merges (lines 68-131).
MergeStep ==
    /\ pc = "loop"
    /\ Cardinality(active) > 1
    /\ LET st == FindMin(activeArray, distances)
       IN  /\ st.minI # -1 /\ st.minJ # -1
           /\ clusters' = Append(clusters,
                                 NewCluster(st.minI, st.minJ, st.minDist, clusterSizes))
           /\ active' = Retire(active, st.minI, st.minJ)
           /\ distances' = UpdateDistances(method, distances, clusterSizes,
                                           active, st.minI, st.minJ)
           /\ clusterSizes' = [clusterSizes EXCEPT ![st.minI + 1] =
                                 At(clusterSizes, st.minI) + At(clusterSizes, st.minJ)]
    /\ distanceMatrix' = SeenByCaller(distanceMatrix, matrixRows, distances', distancesRows)
    /\ pc' = "loop"
    /\ UNCHANGED <<uiVars, knnVars, evalVars, metricVars, tweets, matrixRows, distancesRows, method,
                   kArg, assignments, accuracy>>

\* The loop is left and clusters is returned (line 133): the loop condition of
\* line 68 fails, or the scan found no pair and line 87 breaks.
ReturnClusters ==
    /\ pc = "loop"
    /\ \/ Cardinality(active) <= 1
       \/ LET st == FindMin(activeArray, distances)
          IN  st.minI = -1 \/ st.minJ = -1
    /\ pc' = "returned"
    /\ UNCHANGED <<uiVars, knnVars, evalVars, metricVars, tweets, hcVars, kArg, assignments, accuracy>>

----------------------------------------------------------------------------
(* formClusters *)

\* Array.prototype.slice(start): the index the slice begins at.
SliceStart(len, start) == IF start < 0 THEN Max(len + start, 0) ELSE Min(start, len)

\* Lines 143-153: the merges from position pos (0-based) to the end, in order.
\* linkage.indexOf(merge) is the merge's own position: the elements of the
\* slice are the objects of linkage, compared by identity.
RECURSIVE ApplyMerges(_, _, _, _)
ApplyMerges(linkage, pos, size, asg) ==
    IF pos >= Len(linkage) THEN asg
    ELSE LET merge == At(linkage, pos)
             clusterId == size + pos
             a1 == IF merge.left < size
                   THEN [asg EXCEPT ![merge.left + 1] = clusterId] ELSE asg
             a2 == IF merge.right < size
                   THEN [a1 EXCEPT ![merge.right + 1] = clusterId] ELSE a1
         IN  ApplyMerges(linkage, pos + 1, size, a2)

\* Line 156: [...new Set(assignments)], the distinct values in first-seen order.
RECURSIVE UniqueInOrder(_, _, _)
UniqueInOrder(arr, pos, acc) ==
    IF pos >= Len(arr) THEN acc
    ELSE UniqueInOrder(arr, pos + 1,
                       IF \E q \in 1..Len(acc) : acc[q] = At(arr, pos)
                       THEN acc ELSE Append(acc, At(arr, pos)))

IndexOf(arr, v) == (CHOOSE q \in 1..Len(arr) : arr[q] = v) - 1

\* Numbering the ids by their rank among the ids used, not by first occurrence.
RenumberByRank(asg) ==
    [q \in 1..Len(asg) |->
       Cardinality({v \in {asg[r] : r \in 1..Len(asg)} : v < asg[q]})]

\* Lines 155-159.
Renumber(asg) ==
    LET uniqueClusters == UniqueInOrder(asg, 0, <<>>)
    IN  [q \in 1..Len(asg) |-> IndexOf(uniqueClusters, asg[q])]

\* Lines 138-153: the assignment before renumbering.
RawAssignments(linkage, k, size) ==
    ApplyMerges(linkage, SliceStart(Len(linkage), -(k - 1)), size,
                [q \in 1..size |-> q - 1])

formClusters(linkage, k, size) == Renumber(RawAssignments(linkage, k, size))

\* The cluster counts the slider of ClusteringSection offers, cut to the model's sizes.
KValues == 2..(MaxN + 1)

FormClusters ==
    /\ pc = "returned"
    /\ \E k \in KValues :
         /\ kArg' = k
         /\ assignments' = formClusters(clusters, k, n)
    /\ pc' = "extracted"
    /\ UNCHANGED <<uiVars, knnVars, evalVars, metricVars, tweets, hcVars, accuracy>>

----------------------------------------------------------------------------
(* calculateAccuracy *)

\* Lines 169-178: the labels of the documents of one cluster, in document order.
RECURSIVE ClusterLabels(_, _, _, _)
ClusterLabels(predicted, actual, cluster, pos) ==
    IF pos >= Len(predicted) THEN <<>>
    ELSE (IF At(predicted, pos) = cluster THEN <<At(actual, pos)>> ELSE <<>>)
         \o ClusterLabels(predicted, actual, cluster, pos + 1)

CountOf(arr, v) == Cardinality({q \in 1..Len(arr) : arr[q] = v})

\* The walk with >= in place of >: the last label of the highest count wins.
RECURSIVE ScanCountsLastMax(_, _, _, _)
ScanCountsLastMax(labelsSeen, labels, pos, st) ==
    IF pos >= Len(labelsSeen) THEN st
    ELSE LET label == At(labelsSeen, pos)
             count == CountOf(labels, label)
         IN  ScanCountsLastMax(labelsSeen, labels, pos + 1,
                               IF count >= st.maxCount
                               THEN [maxCount |-> count, maxLabel |-> label]
                               ELSE st)

\* Lines 183-190: the Map of counts is walked in insertion order, which is the
\* order of first occurrence; a label replaces the candidate on a strictly
\* larger count.  st = [maxCount, maxLabel].
RECURSIVE ScanCounts(_, _, _, _)
ScanCounts(labelsSeen, labels, pos, st) ==
    IF pos >= Len(labelsSeen) THEN st
    ELSE LET label == At(labelsSeen, pos)
             count == CountOf(labels, label)
         IN  ScanCounts(labelsSeen, labels, pos + 1,
                        IF count > st.maxCount
                        THEN [maxCount |-> count, maxLabel |-> label]
                        ELSE st)

\* Lines 181-192: clusterToLabel.get(cluster).
DominantLabel(predicted, actual, cluster) ==
    LET labels == ClusterLabels(predicted, actual, cluster, 0)
    IN  ScanCounts(UniqueInOrder(labels, 0, <<>>), labels, 0,
                   [maxCount |-> 0, maxLabel |-> ""]).maxLabel

\* Lines 163-204.
calculateAccuracy(predicted, actual) ==
    IF Len(predicted) # Len(actual) THEN Int2Num(0)
    ELSE LET correct == Cardinality({q \in 1..Len(predicted) :
                           DominantLabel(predicted, actual, predicted[q]) = actual[q]})
         IN  IntDiv(correct, Len(predicted))

----------------------------------------------------------------------------
(* Inputs: symmetric matrices with a zero diagonal *)

RichValues == {Int2Num(0), Int2Num(1), Int2Num(2), Infinity}

CoarseValues == {Int2Num(1), Int2Num(2)}

InputValues(size) == IF size <= MaxRichN THEN RichValues ELSE CoarseValues

UpperPairs(size) == {p \in (0..(size - 1)) \X (0..(size - 1)) : p[1] < p[2]}

SquareForm(size, cond) ==
    [r \in 1..size |->
       [c \in 1..size |->
          IF r = c THEN Int2Num(0)
          ELSE IF r < c THEN cond[<<r - 1, c - 1>>] ELSE cond[<<c - 1, r - 1>>]]]

SymmetricMatrices(size) ==
    {SquareForm(size, cond) : cond \in [UpperPairs(size) -> InputValues(size)]}

\* Five documents on which the rounding of a quotient shows: documents 0, 1
\* and 2 merge, then 3 and 4, and the two clusters stand at (4/3 + 2) / 2.
RoundingMatrix ==
    [r \in 1..5 |->
       [c \in 1..5 |->
          Int2Num(<<<<0, 1, 1, 1, 2>>,
                    <<1, 0, 1, 1, 2>>,
                    <<1, 1, 0, 2, 2>>,
                    <<1, 1, 2, 0, 1>>,
                    <<2, 2, 2, 1, 0>>>>[r][c])]]

Str_a_b_c_d_e == <<"a", " ", "b", " ", "c", " ", "d", " ", "e">>

Str_a_b_c_f_g == <<"a", " ", "b", " ", "c", " ", "f", " ", "g">>

Str_a_b_c_h_i == <<"a", " ", "b", " ", "c", " ", "h", " ", "i">>

\* The matrix createDistanceMatrix builds for four tweets of five words, the
\* first two the same and any other two with three words in common: 5 / 10
\* between the first two and 7 / 10, as rounded, between any other two.
SharedWordsMatrix ==
    createDistanceMatrix(<<[cleaned |-> Str_a_b_c_d_e], [cleaned |-> Str_a_b_c_d_e],
                           [cleaned |-> Str_a_b_c_f_g], [cleaned |-> Str_a_b_c_h_i]>>)

\* The matrices handed to hierarchicalClustering directly.
InputMatrices ==
    UNION {SymmetricMatrices(size) : size \in 0..MaxN}
        \cup {RoundingMatrix, SharedWordsMatrix}

\* Before the call: nothing has been computed.
Init ==
    /\ pc = "idle"
    /\ tweets = <<>>
    /\ distanceMatrix = <<>>
    /\ method = "average"
    /\ distances = <<>>
    /\ matrixRows = <<>>
    /\ distancesRows = <<>>
    /\ active = {}
    /\ clusterSizes = <<>>
    /\ clusters = <<>>
    /\ kArg = 0
    /\ assignments = <<>>
    /\ accuracy = NaN
    /\ knnPc = "idle"
    /\ tweetText = <<>>
    /\ trainingData = <<>>
    /\ params = [k |-> 1, voteType |-> "majority", distanceType |-> "default"]
    /\ neighbors = <<>>
    /\ predictedLabel = ""
    /\ evalPc = "idle"
    /\ predictedArg = <<>>
    /\ actualArg = <<>>
    /\ clusterToLabel = <<>>
    /\ evalResult = NaN
    /\ metricPc = "idle"
    /\ metricType = "default"
    /\ metricA = <<>>
    /\ metricB = <<>>
    /\ metricResult = NaN
    /\ metricSwapped = NaN
    /\ testTweets = <<>>
    /\ trainingTweets = <<>>
    /\ knnParams = [k |-> 3, voteType |-> "majority", distanceType |-> "default"]
    /\ classificationMethod = "knn"
    /\ isClassifying = FALSE
    /\ classifyTimer = <<>>
    /\ testSplitPercentage = 30
    /\ fileReads = {}
    /\ events = 0

\* A caller invokes hierarchicalClustering(matrix, meth).
CallClustering ==
    /\ pc = "idle"
    /\ \E matrix \in InputMatrices, meth \in Methods :
         EnterClustering(matrix, meth)
    /\ pc' = "loop"
    /\ UNCHANGED <<uiVars, knnVars, evalVars, metricVars, tweets, kArg, assignments, accuracy>>

----------------------------------------------------------------------------
(* ClusteringSection.handleClustering *)

\* Tweet.label is optional: "" stands for undefined.
NoLabel == ""

\* UploadSection line 168: a training tweet always carries one of three labels.
LabelValues == {"positive", "negative", "neutral"}

\* UploadSection lines 162-169: the tweets handleTrainingUpload builds from
\* the rows of a file, less their id.
TweetValues ==
    {[text |-> t, cleaned |-> cleanTweet(t), label |-> l] :
       t \in SampleTexts, l \in LabelValues}

\* The page hands its trainingTweets to ClusteringSection; the id of a tweet
\* is the index of its line.
LoadTweets ==
    /\ pc = "idle"
    /\ \E size \in 0..MaxTweets :
         \E rows \in [1..size -> TweetValues] :
            tweets' = [q \in 1..size |->
                         [id |-> q - 1, text |-> rows[q].text,
                          cleaned |-> rows[q].cleaned, label |-> rows[q].label]]
    /\ pc' = "loaded"
    /\ UNCHANGED <<uiVars, knnVars, evalVars, metricVars, hcVars, kArg, assignments, accuracy>>

\* Lines 41-49: fewer than two tweets, a toast and nothing else.
RejectTooFew ==
    /\ pc = "loaded"
    /\ Len(tweets) < 2
    /\ pc' = "rejected"
    /\ UNCHANGED <<uiVars, knnVars, evalVars, metricVars, tweets, hcVars, kArg, assignments, accuracy>>

\* Lines 53-57: the matrix is built and hierarchicalClustering is entered
\* with the method picked in the panel.
StartClustering ==
    /\ pc = "loaded"
    /\ Len(tweets) >= 2
    /\ \E meth \in Methods : EnterClustering(createDistanceMatrix(tweets), meth)
    /\ pc' = "loop"
    /\ UNCHANGED <<uiVars, knnVars, evalVars, metricVars, tweets, kArg, assignments, accuracy>>

HasLabel(t) == t.label # NoLabel

\* Lines 62-81: the accuracy over the labelled tweets.
Evaluate ==
    /\ pc = "extracted"
    /\ Len(tweets) >= 2
    /\ LET labeledTweets == SelectSeq(tweets, HasLabel)
           labeledAssignments ==
               SubSeq(assignments, 1, Min(Len(labeledTweets), Len(assignments)))
           actualLabels == [q \in 1..Len(labeledTweets) |-> labeledTweets[q].label]
       IN  accuracy' = IF Len(labeledTweets) = 0 THEN Int2Num(0)
                       ELSE calculateAccuracy(labeledAssignments, actualLabels)
    /\ pc' = "evaluated"
    /\ UNCHANGED <<uiVars, knnVars, evalVars, metricVars, tweets, hcVars, kArg, assignments>>

Next ==
    \/ CallClustering
    \/ LoadTweets
    \/ RejectTooFew
    \/ StartClustering
    \/ Evaluate
    \/ MergeStep
    \/ ReturnClusters
    \/ FormClusters

Spec == Init /\ [][Next]_vars

----------------------------------------------------------------------------
(* knn.ts: the metrics *)

\* t.split(/\s+/).filter(w => w.length > 0)
Words(str) ==
    LET parts == SplitWhitespace(str)
        keep(w) == Len(w) > 0
    IN  SelectSeq(parts, keep)

SetOf(arr) == {arr[q] : q \in 1..Len(arr)}

\* Lines 4-13.
defaultDistance(t1, t2) ==
    LET words1 == SetOf(Words(t1))
        words2 == SetOf(Words(t2))
        union == words1 \cup words2
        intersection == {x \in words1 : x \in words2}
    IN  IF Cardinality(union) = 0 THEN DblFromInt(1)
        ELSE DblQuot(Cardinality(union) - Cardinality(intersection), Cardinality(union))

\* Lines 16-25.
jaccardDistance(t1, t2) ==
    LET words1 == SetOf(Words(t1))
        words2 == SetOf(Words(t2))
        intersection == {x \in words1 : x \in words2}
        union == words1 \cup words2
    IN  IF Cardinality(union) = 0 THEN DblFromInt(1)
        ELSE DblSub(DblFromInt(1), DblQuot(Cardinality(intersection), Cardinality(union)))

Min3(a, b, c) == Min(a, Min(b, c))

\* Lines 41-51: row i of the matrix from row i - 1; a row holds columns 0..len2.
RECURSIVE LevFill(_, _, _, _, _, _)
LevFill(s1, s2, i, j, prev, cur) ==
    IF j > Len(s2) THEN cur
    ELSE LevFill(s1, s2, i, j + 1, prev,
                 Append(cur, IF s1[i] = s2[j] THEN At(prev, j - 1)
                             ELSE Min3(At(prev, j - 1) + 1, At(cur, j - 1) + 1,
                                       At(prev, j) + 1)))

\* Lines 40-52: the rows 1..len1, appended to the matrix one by one.
RECURSIVE LevRows(_, _, _)
LevRows(s1, s2, matrix) ==
    IF Len(matrix) > Len(s1) THEN matrix
    ELSE LevRows(s1, s2,
                 Append(matrix, LevFill(s1, s2, Len(matrix), 1,
                                        matrix[Len(matrix)], <<Len(matrix)>>)))

\* Lines 28-56.
levenshteinDistance(s1, s2) ==
    LET matrix == LevRows(s1, s2, <<[q \in 1..(Len(s2) + 1) |-> q - 1]>>)
        maxLen == Max(Len(s1), Len(s2))
    IN  IF maxLen = 0 THEN DblZero
        ELSE DblQuot(At(At(matrix, Len(s1)), Len(s2)), maxLen)

RECURSIVE SumSeq(_)
SumSeq(arr) == IF Len(arr) = 0 THEN 0 ELSE arr[1] + SumSeq(Tail(arr))

\* Lines 64-65: how often each word of allWords occurs among words.
CountVector(words, allWords) ==
    [q \in 1..Len(allWords) |-> CountOf(words, allWords[q])]

\* Lines 67-69: the sum of the products, a whole number.
DotProduct(vec1, vec2) == SumSeq([q \in 1..Len(vec1) |-> vec1[q] * vec2[q]])

\* Lines 68-69.
Magnitude(vec) == DblSqrt(DblFromInt(DotProduct(vec, vec)))

\* Lines 71-72 with the product of the magnitudes replaced by the square of
\* the first.
CosineOfOneSided(dotProduct, mag1, mag2) ==
    IF IsZero(mag1) \/ IsZero(mag2) THEN DblFromInt(1)
    ELSE DblSub(DblFromInt(1), DblDiv(DblFromInt(dotProduct), DblMul(mag1, mag1)))

\* Lines 71-72.
CosineOf(dotProduct, mag1, mag2) ==
    IF IsZero(mag1) \/ IsZero(mag2) THEN DblFromInt(1)
    ELSE DblSub(DblFromInt(1), DblDiv(DblFromInt(dotProduct), DblMul(mag1, mag2)))

\* Lines 67-72.
CosineOfVectors(vec1, vec2) ==
    CosineOf(DotProduct(vec1, vec2), Magnitude(vec1), Magnitude(vec2))

\* Lines 63-72.
CosineOfWords(words1, words2, allWords) ==
    CosineOfVectors(CountVector(words1, allWords), CountVector(words2, allWords))

\* Lines 59-73.
cosineDistance(t1, t2) ==
    LET words1 == Words(t1)
        words2 == Words(t2)
    IN  CosineOfWords(words1, words2, UniqueInOrder(words1 \o words2, 0, <<>>))

\* Lines 75-82, applied.
Distance(type, t1, t2) ==
    CASE type = "jaccard" -> jaccardDistance(t1, t2)
      [] type = "levenshtein" -> levenshteinDistance(t1, t2)
      [] type = "cosine" -> cosineDistance(t1, t2)
      [] OTHER -> defaultDistance(t1, t2)

----------------------------------------------------------------------------
(* knnClassify: the inputs *)

Str_good_day == <<"g", "o", "o", "d", " ", "d", "a", "y">>

Str_bad_day == <<"b", "a", "d", " ", "d", "a", "y">>

Str_good == <<"g", "o", "o", "d">>

Str_at_bob == <<"@", "b", "o", "b">>

QueryTexts == {Str_good_day, Str_at_bob, <<>>}

ReferenceTexts == {Str_good_day, Str_bad_day, Str_good}

\* Reference tweets as the uploads store them: cleaned is cleanTweet(text).
\* A text of mentions only has no cleaned text and falls back to its raw text.
ReferenceTweets ==
    {[text |-> t, cleaned |-> cleanTweet(t), label |-> l] :
        t \in ReferenceTexts, l \in {"positive", "negative"}}
    \cup {[text |-> Str_at_bob, cleaned |-> cleanTweet(Str_at_bob), label |-> "positive"]}

VoteTypes == {"majority", "weighted"}

DistanceTypes == {"default", "jaccard", "levenshtein", "cosine", "euclidean"}

\* Line 94: tweet.cleaned || tweet.text.
CleanedOrText(tweet) == IF Len(tweet.cleaned) > 0 THEN tweet.cleaned ELSE tweet.text

\* distanceFn is pure: its values over the inputs, computed once.
DistanceMemo ==
    [type \in DistanceTypes, t1 \in QueryTexts,
     t2 \in {CleanedOrText(tweet) : tweet \in ReferenceTweets} |->
       Distance(type, t1, t2)]

\* 0.0001
Epsilon == DblQuot(1, 10000)

\* Line 105: distance === 0 ? 1 : 1 / (distance + 0.0001).
Weight(distance) ==
    IF IsZero(distance) THEN DblFromInt(1)
    ELSE DblDiv(DblFromInt(1), DblAdd(distance, Epsilon))

ValuesOf(f) == {f[x] : x \in DOMAIN f}

\* The weight is a pure function of the distance: its values, computed once.
WeightMemo == [distance \in ValuesOf(DistanceMemo) |-> Weight(distance)]

----------------------------------------------------------------------------
(* knnClassify *)

\* Lines 93-96.
MapDistances(text, data, type) ==
    [q \in 1..Len(data) |->
       [distance |-> DistanceMemo[type, text, CleanedOrText(data[q])],
        label |-> data[q].label]]

\* The insertion of an unstable sort: an item goes before its equals.
RECURSIVE InsertSortedUnstable(_, _, _)
InsertSortedUnstable(sorted, item, pos) ==
    IF pos > Len(sorted) THEN Append(sorted, item)
    ELSE IF DblLessEq(item.distance, sorted[pos].distance)
         THEN SubSeq(sorted, 1, pos - 1) \o <<item>> \o SubSeq(sorted, pos, Len(sorted))
         ELSE InsertSortedUnstable(sorted, item, pos + 1)

\* Line 97: Array.prototype.sort is stable; with (a, b) => a.distance - b.distance
\* an item goes before the first already placed item it is strictly less than.
RECURSIVE InsertSorted(_, _, _)
InsertSorted(sorted, item, pos) ==
    IF pos > Len(sorted) THEN Append(sorted, item)
    ELSE IF DblLess(item.distance, sorted[pos].distance)
         THEN SubSeq(sorted, 1, pos - 1) \o <<item>> \o SubSeq(sorted, pos, Len(sorted))
         ELSE InsertSorted(sorted, item, pos + 1)

RECURSIVE SortByDistance(_, _, _)
SortByDistance(arr, pos, sorted) ==
    IF pos > Len(arr) THEN sorted
    ELSE SortByDistance(arr, pos + 1, InsertSorted(sorted, arr[pos], 1))

\* Array.prototype.slice(0, end).
SliceTo(arr, end) ==
    SubSeq(arr, 1, IF end < 0 THEN Max(Len(arr) + end, 0) ELSE Min(end, Len(arr)))

\* Lines 92-98.
Neighbors(text, data, prm) ==
    SliceTo(SortByDistance(MapDistances(text, data, prm.distanceType), 1, <<>>), prm.k)

NeighborLabels(nb) == [q \in 1..Len(nb) |-> nb[q].label]

\* Lines 104-107: weights.get(label) once every neighbour has been added.
RECURSIVE LabelWeight(_, _, _)
LabelWeight(nb, label, pos) ==
    IF pos = 0 THEN DblZero
    ELSE IF nb[pos].label = label
         THEN DblAdd(LabelWeight(nb, label, pos - 1), WeightMemo[nb[pos].distance])
         ELSE LabelWeight(nb, label, pos - 1)

\* The walk with >= in place of >: the last label of the highest weight wins.
RECURSIVE ScanWeightsLastMax(_, _, _, _)
ScanWeightsLastMax(nb, labelsSeen, pos, st) ==
    IF pos > Len(labelsSeen) THEN st
    ELSE LET weight == LabelWeight(nb, labelsSeen[pos], Len(nb))
         IN  ScanWeightsLastMax(nb, labelsSeen, pos + 1,
                                IF DblLessEq(st.maxWeight, weight)
                                THEN [maxWeight |-> weight, predictedLabel |-> labelsSeen[pos]]
                                ELSE st)

\* Lines 112-115: a label of greater weight than the greatest so far takes over.
Heavier(st, label, weight) ==
    IF DblLess(st.maxWeight, weight)
    THEN [maxWeight |-> weight, predictedLabel |-> label]
    ELSE st

\* Lines 109-117: the Map is walked in insertion order.
RECURSIVE ScanWeights(_, _, _, _)
ScanWeights(nb, labelsSeen, pos, st) ==
    IF pos > Len(labelsSeen) THEN st
    ELSE ScanWeights(nb, labelsSeen, pos + 1,
                     Heavier(st, labelsSeen[pos],
                             LabelWeight(nb, labelsSeen[pos], Len(nb))))

\* Lines 100-119.
WeightedVote(nb) ==
    ScanWeights(nb, UniqueInOrder(NeighborLabels(nb), 0, <<>>), 1,
                [maxWeight |-> DblFromInt(-1), predictedLabel |-> "neutral"]).predictedLabel

\* The walk with >= in place of >: the last label of the highest count wins.
RECURSIVE ScanVotesLastMax(_, _, _, _)
ScanVotesLastMax(labels, labelsSeen, pos, st) ==
    IF pos > Len(labelsSeen) THEN st
    ELSE LET count == CountOf(labels, labelsSeen[pos])
         IN  ScanVotesLastMax(labels, labelsSeen, pos + 1,
                              IF count >= st.maxVotes
                              THEN [maxVotes |-> count, predictedLabel |-> labelsSeen[pos]]
                              ELSE st)

\* Lines 128-136: maxVotes starts at -1.
RECURSIVE ScanVotes(_, _, _, _)
ScanVotes(labels, labelsSeen, pos, st) ==
    IF pos > Len(labelsSeen) THEN st
    ELSE LET count == CountOf(labels, labelsSeen[pos])
         IN  ScanVotes(labels, labelsSeen, pos + 1,
                       IF count > st.maxVotes
                       THEN [maxVotes |-> count, predictedLabel |-> labelsSeen[pos]]
                       ELSE st)

\* The majority vote without the initial "neutral".
MajorityVoteNoDefault(nb) ==
    ScanVotes(NeighborLabels(nb), UniqueInOrder(NeighborLabels(nb), 0, <<>>), 1,
              [maxVotes |-> -1, predictedLabel |-> ""]).predictedLabel

\* Lines 120-139.
MajorityVote(nb) ==
    ScanVotes(NeighborLabels(nb), UniqueInOrder(NeighborLabels(nb), 0, <<>>), 1,
              [maxVotes |-> -1, predictedLabel |-> "neutral"]).predictedLabel

\* Lines 100-139: the vote of the type asked for.
VoteOf(voteType, nb) ==
    IF voteType = "weighted" THEN WeightedVote(nb) ELSE MajorityVote(nb)

\* Lines 89-98: knnClassify is entered and the neighbours are found.
FindNeighbors ==
    /\ knnPc = "idle"
    /\ \E text \in QueryTexts, size \in 0..MaxTrain, k \in 1..MaxK,
          vote \in VoteTypes, type \in DistanceTypes :
         \E data \in [1..size -> ReferenceTweets] :
            /\ tweetText' = text
            /\ trainingData' = data
            /\ params' = [k |-> k, voteType |-> vote, distanceType |-> type]
            /\ neighbors' = Neighbors(text, data, params')
    /\ knnPc' = "neighbors"
    /\ UNCHANGED <<uiVars, clusterVars, evalVars, metricVars, predictedLabel>>

\* Lines 100-139: the vote.
Vote ==
    /\ knnPc = "neighbors"
    /\ predictedLabel' = VoteOf(params.voteType, neighbors)
    /\ knnPc' = "returned"
    /\ UNCHANGED <<uiVars, clusterVars, evalVars, metricVars, tweetText, trainingData, params, neighbors>>

NextKNN ==
    \/ FindNeighbors
    \/ Vote

SpecKNN == Init /\ [][NextKNN]_vars

----------------------------------------------------------------------------
(* createConfusionMatrix, calculateRandIndex, and direct calls of the        *)
(* evaluation functions                                                      *)

\* The value of an array read past its end.
Undefined == "undefined"

\* arr[i]
ElementAt(arr, i) == IF i >= 0 /\ i < Len(arr) THEN At(arr, i) ELSE Undefined

\* Lines 216-224: the labels of the documents of one cluster, in document
\* order; actual[i] is read whatever the length of actual.
RECURSIVE MemberLabels(_, _, _, _)
MemberLabels(predicted, actual, cluster, pos) ==
    IF pos >= Len(predicted) THEN <<>>
    ELSE (IF At(predicted, pos) = cluster THEN <<ElementAt(actual, pos)>> ELSE <<>>)
         \o MemberLabels(predicted, actual, cluster, pos + 1)

\* A Map that sends every cluster to the label of its first document.
ClusterToFirstLabel(predicted, actual) ==
    [cluster \in {predicted[q] : q \in 1..Len(predicted)} |->
       MemberLabels(predicted, actual, cluster, 0)[1]]

\* Lines 226-237: clusterToLabel, a Map from the cluster ids met to labels.
ClusterToLabel(predicted, actual) ==
    [cluster \in {predicted[q] : q \in 1..Len(predicted)} |->
       LET labels == MemberLabels(predicted, actual, cluster, 0)
       IN  ScanCounts(UniqueInOrder(labels, 0, <<>>), labels, 0,
                      [maxCount |-> 0, maxLabel |-> ""]).maxLabel]

\* The label strings in the order of Array.prototype.sort (UTF-16 code units).
LabelOrder == <<"", "negative", "neutral", "positive">>

\* Line 210: [...new Set(actual)].sort()
SortedLabels(actual) ==
    LET present(label) == \E q \in 1..Len(actual) : actual[q] = label
    IN  SelectSeq(LabelOrder, present)

\* Array.prototype.indexOf
IndexOfOrMinus1(arr, v) ==
    IF \E q \in 1..Len(arr) : arr[q] = v
    THEN (CHOOSE q \in 1..Len(arr) : arr[q] = v /\ \A r \in 1..(q - 1) : arr[r] # v) - 1
    ELSE -1

\* Lines 206-251.
createConfusionMatrix(predicted, actual) ==
    LET labels == SortedLabels(actual)
        toLabel == ClusterToLabel(predicted, actual)
        predLabel(i) == toLabel[At(predicted, i)]
        predIdx(i) == IndexOfOrMinus1(labels, IF predLabel(i) = Undefined THEN ""
                                              ELSE predLabel(i))
        trueIdx(i) == IndexOfOrMinus1(labels, ElementAt(actual, i))
    IN  [matrix |->
           [t \in 1..Len(labels) |->
              [p \in 1..Len(labels) |->
                 Cardinality({i \in 0..(Len(predicted) - 1) :
                                trueIdx(i) = t - 1 /\ predIdx(i) = p - 1})]],
         labels |-> labels]

\* Lines 254-271.
calculateRandIndex(clusters1, clusters2) ==
    LET size == Len(clusters1)
        pairs == {p \in (0..(size - 1)) \X (0..(size - 1)) : p[1] < p[2]}
        sameC1(p) == At(clusters1, p[1]) = At(clusters1, p[2])
        sameC2(p) == ElementAt(clusters2, p[1]) = ElementAt(clusters2, p[2])
        a == Cardinality({p \in pairs : sameC1(p) /\ sameC2(p)})
        b == Cardinality({p \in pairs : ~sameC1(p) /\ ~sameC2(p)})
    IN  IntDiv(a + b, (size * (size - 1)) \div 2)

EvalLabels == {"positive", "negative", "neutral"}

SeqsUpTo(S, len) == UNION {[1..l -> S] : l \in 0..len}

ClusterIdValues == {0, 1, 2}

PredictedValues == SeqsUpTo(ClusterIdValues, MaxDocs)

ActualValues == SeqsUpTo(EvalLabels, MaxDocs)

\* calculateAccuracy(predicted, actual)
CallCalculateAccuracy ==
    /\ evalPc = "idle"
    /\ \E predicted \in PredictedValues, actual \in ActualValues :
         /\ predictedArg' = predicted
         /\ actualArg' = actual
         /\ clusterToLabel' = IF Len(predicted) # Len(actual) THEN <<>>
                              ELSE [cluster \in {predicted[q] : q \in 1..Len(predicted)} |->
                                      DominantLabel(predicted, actual, cluster)]
         /\ evalResult' = calculateAccuracy(predicted, actual)
    /\ evalPc' = "accuracy"
    /\ UNCHANGED <<uiVars, clusterVars, knnVars, metricVars>>

\* createConfusionMatrix(predicted, actual)
CallCreateConfusionMatrix ==
    /\ evalPc = "idle"
    /\ \E predicted \in PredictedValues, actual \in ActualValues :
         /\ predictedArg' = predicted
         /\ actualArg' = actual
         /\ clusterToLabel' = ClusterToLabel(predicted, actual)
         /\ evalResult' = createConfusionMatrix(predicted, actual)
    /\ evalPc' = "confusion"
    /\ UNCHANGED <<uiVars, clusterVars, knnVars, metricVars>>

\* calculateRandIndex(clusters1, clusters2)
CallCalculateRandIndex ==
    /\ evalPc = "idle"
    /\ \E clusters1 \in PredictedValues, clusters2 \in ActualValues :
         /\ predictedArg' = clusters1
         /\ actualArg' = clusters2
         /\ evalResult' = calculateRandIndex(clusters1, clusters2)
    /\ clusterToLabel' = <<>>
    /\ evalPc' = "randIndex"
    /\ UNCHANGED <<uiVars, clusterVars, knnVars, metricVars>>

NextEval ==
    \/ CallCalculateAccuracy
    \/ CallCreateConfusionMatrix
    \/ CallCalculateRandIndex

SpecEval == Init /\ [][NextEval]_vars

----------------------------------------------------------------------------
(* The metrics of knn.ts, called on a pair of strings and on the swapped pair *)

Str_blank == <<" ">>

Str_good_good_day == <<"g", "o", "o", "d", " ", "g", "o", "o", "d", " ", "d", "a", "y">>

Str_day_good == <<"d", "a", "y", " ", " ", "g", "o", "o", "d">>

MetricTexts ==
    {<<>>, Str_blank, Str_good_day, Str_bad_day, Str_good, Str_good_good_day,
     Str_day_good, Str_i_love_this}

\* The cases of getDistanceFunction.
MetricTypes == {"default", "jaccard", "levenshtein", "cosine"}

\* distanceFn(a, b)
CallMetric ==
    /\ metricPc = "idle"
    /\ \E type \in MetricTypes, a \in MetricTexts, b \in MetricTexts :
         /\ metricType' = type
         /\ metricA' = a
         /\ metricB' = b
         /\ metricResult' = Distance(type, a, b)
    /\ metricPc' = "called"
    /\ UNCHANGED <<uiVars, clusterVars, knnVars, evalVars, metricSwapped>>

\* distanceFn(b, a)
CallMetricSwapped ==
    /\ metricPc = "called"
    /\ metricSwapped' = Distance(metricType, metricB, metricA)
    /\ metricPc' = "swapped"
    /\ UNCHANGED <<uiVars, clusterVars, knnVars, evalVars, metricType, metricA, metricB,
                   metricResult>>

NextMetric ==
    \/ CallMetric
    \/ CallMetricSwapped

SpecMetric == Init /\ [][NextMetric]_vars

----------------------------------------------------------------------------
(* KNNConfig.handleClassify, TweetsDisplay.handleManualAnnotation and the     *)
(* uploads of UploadSection, over the page state they share.  The setters are *)
(* React state setters: the value given replaces the state, and a handler or  *)
(* a timer callback reads the values of the render that created it.           *)

NoTimer == <<>>

\* Lines 84-140 of knn.ts.
knnClassify(text, data, prm) == VoteOf(prm.voteType, Neighbors(text, data, prm))

\* Words of the two word lists dictionaryClassify loads.
PositiveWords == {<<"g", "o", "o", "d">>}

NegativeWords == {<<"b", "a", "d">>}

\* dictionaryClassify.ts lines 12-25: the words are not filtered.
dictionaryClassify(text) ==
    LET words == SplitWhitespace(ToLowerCase(text))
        positiveCount == Cardinality({q \in 1..Len(words) : words[q] \in PositiveWords})
        negativeCount == Cardinality({q \in 1..Len(words) : words[q] \in NegativeWords})
    IN  IF positiveCount > negativeCount THEN "positive"
        ELSE IF negativeCount > positiveCount THEN "negative"
        ELSE "neutral"

Str_at_bob_good_day ==
    <<"@", "b", "o", "b", " ", "g", "o", "o", "d", " ", "d", "a", "y">>

Str_RT_good == <<"R", "T", " ", "g", "o", "o", "d">>

\* A file is the rows parseCsvLine gives for its lines: the tweet field and
\* the label field of each, trimmed (UploadSection lines 155-158).  The split
\* into lines and the detection of delimiter and columns are not modelled:
\* each file is the rows the code reads from a file of these lines.  In a
\* file of a single line the label field is the tweet field (lines 59-60).
\*   "good day,"  ",4"  "@bob,0"
\*   "@bob good day,4"  ","
\*   "@bob good day,4"
TestFiles ==
    {<<<<Str_good_day, "">>, <<<<>>, "4">>, <<Str_at_bob, "0">>>>,
     <<<<Str_at_bob_good_day, "4">>, <<<<>>, "">>>>,
     <<<<Str_at_bob_good_day, "@bob good day">>>>}

\*   "good day,4"  "bad day,0"  "RT good,2"
TrainingFiles ==
    {<<<<Str_good_day, "4">>, <<Str_bad_day, "0">>, <<Str_RT_good, "2">>>>}

\*   "good day,4"  "@bob good day,0"
SingleFiles == {<<<<Str_good_day, "4">>, <<Str_at_bob_good_day, "0">>>>}

\* The slider runs from 10 to 50 by 5; two of its values.
SplitValues == {30, 50}

\* UploadSection line 168 (and 258).
TrainingLabel(labelValue) ==
    IF labelValue = "0" THEN "negative"
    ELSE IF labelValue = "4" THEN "positive"
    ELSE "neutral"

\* UploadSection lines 207-210.
TestLabel(labelValue) ==
    IF labelValue = "0" THEN "negative"
    ELSE IF labelValue = "4" THEN "positive"
    ELSE IF labelValue # "" /\ labelValue # "target" /\ labelValue # "label"
    THEN "neutral"
    ELSE NoLabel

\* UploadSection lines 152-170, 194-218 and 242-260: the tweets pushed for
\* the rows from line i (0-based) on; a row without tweet text is skipped.
\* No tweet has a predictedLabel yet.
RECURSIVE ParseRows(_, _, _)
ParseRows(rows, i, test) ==
    IF i >= Len(rows) THEN <<>>
    ELSE LET textField == At(rows, i)[1]
             labelValue == At(rows, i)[2]
         IN  IF Len(textField) = 0 THEN ParseRows(rows, i + 1, test)
             ELSE <<[id |-> i,
                     text |-> textField,
                     cleaned |-> cleanTweet(textField),
                     label |-> IF test THEN TestLabel(labelValue)
                               ELSE TrainingLabel(labelValue),
                     predictedLabel |-> NoLabel]>>
                  \o ParseRows(rows, i + 1, test)

\* Math.floor of a number that is not negative and below BigBase * BigBase.
Floor(x) ==
    LET whole == BigShr(x.m, -x.e)
    IN  BigDigit(whole, 1) + BigBase * BigDigit(whole, 2)

\* [...allTweets].sort(() => Math.random() - 0.5): some order of the tweets.
Shuffles(arr) ==
    {[q \in 1..Len(arr) |-> arr[f[q]]] : f \in Permutations(1..Len(arr))}

AnnotationLabels == {"positive", "negative", "neutral"}

\* The user triggers one more event.
UserEvent == events < MaxEvents /\ events' = events + 1

\* An upload handler suspended at await file.text(): it holds the file and
\* the values of the render that created it.
Suspended(handler, file) ==
    [handler |-> handler, file |-> file, testSplitPercentage |-> testSplitPercentage]

\* UploadSection lines 179-184.
handleTestUpload ==
    /\ UserEvent
    /\ Cardinality(fileReads) < MaxReads
    /\ \E file \in TestFiles : fileReads' = fileReads \cup {Suspended("test", file)}
    /\ UNCHANGED <<clusterVars, knnVars, evalVars, metricVars, testTweets,
                   trainingTweets, knnParams, classificationMethod, isClassifying,
                   classifyTimer, testSplitPercentage>>

\* UploadSection lines 185-224, once the text of the file is there:
\* setTestTweets(tweets).
handleTestUploadRead ==
    /\ \E read \in fileReads :
         /\ read.handler = "test"
         /\ testTweets' = ParseRows(read.file, 0, TRUE)
         /\ fileReads' = fileReads \ {read}
    /\ UNCHANGED <<events, clusterVars, knnVars, evalVars, metricVars, trainingTweets,
                   knnParams, classificationMethod, isClassifying, classifyTimer,
                   testSplitPercentage>>

\* UploadSection lines 137-142.
handleTrainingUpload ==
    /\ UserEvent
    /\ Cardinality(fileReads) < MaxReads
    /\ \E file \in TrainingFiles : fileReads' = fileReads \cup {Suspended("training", file)}
    /\ UNCHANGED <<clusterVars, knnVars, evalVars, metricVars, testTweets,
                   trainingTweets, knnParams, classificationMethod, isClassifying,
                   classifyTimer, testSplitPercentage>>

\* UploadSection lines 143-176: setTrainingTweets(tweets).
handleTrainingUploadRead ==
    /\ \E read \in fileReads :
         /\ read.handler = "training"
         /\ trainingTweets' = ParseRows(read.file, 0, FALSE)
         /\ fileReads' = fileReads \ {read}
    /\ UNCHANGED <<events, clusterVars, knnVars, evalVars, metricVars, testTweets,
                   knnParams, classificationMethod, isClassifying, classifyTimer,
                   testSplitPercentage>>

\* UploadSection lines 227-232.
handleSingleDatasetUpload ==
    /\ UserEvent
    /\ Cardinality(fileReads) < MaxReads
    /\ \E file \in SingleFiles : fileReads' = fileReads \cup {Suspended("single", file)}
    /\ UNCHANGED <<clusterVars, knnVars, evalVars, metricVars, testTweets,
                   trainingTweets, knnParams, classificationMethod, isClassifying,
                   classifyTimer, testSplitPercentage>>

\* UploadSection lines 233-276: the tweets are shuffled and split at
\* Math.floor(length * (percentage / 100)); both lists are replaced.
handleSingleDatasetUploadRead ==
    /\ \E read \in fileReads :
         /\ read.handler = "single"
         /\ \E shuffled \in Shuffles(ParseRows(read.file, 0, FALSE)) :
              LET testSize == Floor(NumMul(Int2Num(Len(shuffled)),
                                           IntDiv(read.testSplitPercentage, 100)))
              IN  /\ testTweets' = SubSeq(shuffled, 1, testSize)
                  /\ trainingTweets' = SubSeq(shuffled, testSize + 1, Len(shuffled))
         /\ fileReads' = fileReads \ {read}
    /\ UNCHANGED <<events, clusterVars, knnVars, evalVars, metricVars, knnParams,
                   classificationMethod, isClassifying, classifyTimer,
                   testSplitPercentage>>

\* UploadSection lines 380-387: the split slider.
setTestSplitPercentage ==
    /\ UserEvent
    /\ \E value \in SplitValues : testSplitPercentage' = value
    /\ UNCHANGED <<clusterVars, knnVars, evalVars, metricVars, testTweets,
                   trainingTweets, knnParams, classificationMethod, isClassifying,
                   classifyTimer, fileReads>>

\* The values offered by the k slider (1 to 20) and by the metric selector.
SliderKValues == {1, MaxK}

SelectorDistanceTypes == {"default", "cosine"}

\* KNNConfig lines 196-203, 207-214 and 230-237: the k slider, the vote type
\* and the metric each replace one field of the knnParams of the render.
setKnnParams ==
    /\ UserEvent
    /\ classificationMethod = "knn"
    /\ \/ \E k \in SliderKValues : knnParams' = [knnParams EXCEPT !.k = k]
       \/ \E vote \in VoteTypes : knnParams' = [knnParams EXCEPT !.voteType = vote]
       \/ \E type \in SelectorDistanceTypes :
            knnParams' = [knnParams EXCEPT !.distanceType = type]
    /\ UNCHANGED <<clusterVars, knnVars, evalVars, metricVars, testTweets,
                   trainingTweets, classificationMethod, isClassifying, classifyTimer,
                   testSplitPercentage, fileReads>>

\* KNNConfig lines 131-134: the method selector.
setClassificationMethod ==
    /\ UserEvent
    /\ \E m \in {"knn", "dictionary"} : classificationMethod' = m
    /\ UNCHANGED <<clusterVars, knnVars, evalVars, metricVars, testTweets,
                   trainingTweets, knnParams, isClassifying, classifyTimer,
                   testSplitPercentage, fileReads>>

\* TweetsDisplay lines 39-44, from the selector of a displayed tweet.
handleManualAnnotation ==
    /\ UserEvent
    /\ \E q \in 1..Len(testTweets), label \in AnnotationLabels :
         testTweets' = [r \in 1..Len(testTweets) |->
                          IF testTweets[r].id = testTweets[q].id
                          THEN [testTweets[r] EXCEPT !.label = label]
                          ELSE testTweets[r]]
    /\ UNCHANGED <<clusterVars, knnVars, evalVars, metricVars, trainingTweets,
                   knnParams, classificationMethod, isClassifying, classifyTimer,
                   testSplitPercentage, fileReads>>

\* KNNConfig lines 73-93 and 285: the button is enabled, the checks pass, and
\* the callback is scheduled with the values of this render.
handleClassify ==
    /\ UserEvent
    /\ ~isClassifying
    /\ ~(classificationMethod = "knn" /\ Len(trainingTweets) = 0)
    /\ Len(testTweets) # 0
    /\ isClassifying' = TRUE
    /\ classifyTimer' = Append(classifyTimer,
                                [testTweets |-> testTweets,
                                 trainingTweets |-> trainingTweets,
                                 knnParams |-> knnParams,
                                 classificationMethod |-> classificationMethod])
    /\ UNCHANGED <<clusterVars, knnVars, evalVars, metricVars, testTweets,
                   trainingTweets, knnParams, classificationMethod,
                   testSplitPercentage, fileReads>>

\* The map of lines 96-105 over the list the closure holds.
Classified(closure) ==
    [q \in 1..Len(closure.testTweets) |->
       LET tweet == closure.testTweets[q]
       IN  [tweet EXCEPT !.predictedLabel =
              IF closure.classificationMethod = "knn"
              THEN knnClassify(CleanedOrText(tweet), closure.trainingTweets,
                               closure.knnParams)
              ELSE dictionaryClassify(CleanedOrText(tweet))]]

\* KNNConfig lines 95-114: the callback of setTimeout(..., 1000).
ClassifyTimeout ==
    /\ classifyTimer # NoTimer
    /\ testTweets' = Classified(Head(classifyTimer))
    /\ isClassifying' = FALSE
    /\ classifyTimer' = Tail(classifyTimer)
    /\ UNCHANGED <<events, clusterVars, knnVars, evalVars, metricVars, trainingTweets,
                   knnParams, classificationMethod, testSplitPercentage, fileReads>>

NextUI ==
    \/ handleTestUpload
    \/ handleTestUploadRead
    \/ handleTrainingUpload
    \/ handleTrainingUploadRead
    \/ handleSingleDatasetUpload
    \/ handleSingleDatasetUploadRead
    \/ setTestSplitPercentage
    \/ setKnnParams
    \/ setClassificationMethod
    \/ handleManualAnnotation
    \/ handleClassify
    \/ ClassifyTimeout

SpecUI == Init /\ [][NextUI]_vars

----------------------------------------------------------------------------
(* Claims *)

\* x is one of the small integers.
IsWhole(x) == \E i \in 0..8 : x = Int2Num(i)

Entries(m) == {At(At(m, p[1]), p[2]) : p \in UpperPairs(Len(m))}

AllFinite == \A e \in Entries(distanceMatrix) : IsFinite(e)

Returned == pc \in {"returned", "extracted"}

\* C1: for n >= 2 and a symmetric matrix of finite non-negative distances,
\* every linkage method returns a dendrogram of exactly n-1 MergeRecords.
C1_DendrogramSize ==
    (Returned /\ n >= 2 /\ AllFinite) => Len(clusters) = n - 1

C1_Witness ==
    /\ Returned /\ n = 4 /\ AllFinite /\ method = "ward"
    /\ Len(clusters) = 3
    /\ \E p \in 1..3 : ~IsWhole(clusters[p].distance)

DistinctIds(asg) == {asg[q] : q \in 1..Len(asg)}

\* C2: for 2 <= k <= n, formClusters on the dendrogram of n documents returns
\* an assignment of length n that uses at most k distinct cluster ids.
C2_AtMostKClusters ==
    (pc = "extracted" /\ AllFinite /\ 2 <= kArg /\ kArg <= n) =>
        /\ Len(assignments) = n
        /\ Cardinality(DistinctIds(assignments)) <= kArg

\* C3: the documents "i love this", "i love this", "i hate this" labelled
\* positive, positive, negative, clustered with average linkage and cut at
\* k = 2, have accuracy exactly 1.
C3_ScenarioAccuracy ==
    (/\ pc = "evaluated"
     /\ [q \in 1..Len(tweets) |-> <<tweets[q].cleaned, tweets[q].label>>]
          = <<<<Str_i_love_this, "positive">>,
              <<Str_i_love_this, "positive">>,
              <<Str_i_hate_this, "negative">>>>
     /\ method = "average"
     /\ kArg = 2) => accuracy = Int2Num(1)

Children(rec) == {rec.left, rec.right}

\* C4: left/right use the extended index space (a document is 0..n-1, the
\* result of the m-th merge is n+m, so a record cites only documents and
\* earlier merges) and no index is a child of more than one MergeRecord.
C4_ExtendedIndexSpace ==
    /\ \A p \in 1..Len(clusters) :
          \A c \in Children(clusters[p]) : 0 <= c /\ c < n + (p - 1)
    /\ \A p, q \in 1..Len(clusters) :
          p # q => Children(clusters[p]) \cap Children(clusters[q]) = {}

Dist(dist, a, b) == At(At(dist, a), b)

\* C5: every merge takes a pair i < j of active indices whose current distance
\* is the minimum over all active pairs, the first such pair in scan order.
C5_ClosestPairFirst ==
    [][Len(clusters') = Len(clusters) + 1 =>
         LET rec == clusters'[Len(clusters')]
         IN  /\ rec.left \in active /\ rec.right \in active
             /\ rec.left < rec.right
             /\ rec.distance = Dist(distances, rec.left, rec.right)
             /\ \A a, b \in active :
                   a < b =>
                     /\ LessEq(rec.distance, Dist(distances, a, b))
                     /\ Dist(distances, a, b) = rec.distance =>
                          \/ rec.left < a
                          \/ rec.left = a /\ rec.right <= b]_vars

\* Two disjoint pairs tied for the minimum and the earlier one was merged first.
C5_Witness ==
    /\ Len(clusters) >= 2
    /\ clusters[1].distance = clusters[2].distance
    /\ Dist(distanceMatrix, clusters[2].left, clusters[2].right) = clusters[1].distance
    /\ clusters[1].left < clusters[2].left
    /\ clusters[1].right < clusters[2].right

\* C6: under average and complete linkage the distances of the MergeRecords
\* never decrease along the dendrogram.
C6_MonotoneDistances ==
    method \in {"average", "complete"} =>
        \A m \in 1..(Len(clusters) - 1) :
            LessEq(clusters[m].distance, clusters[m + 1].distance)

ActiveCountInv == Cardinality(active) = n - Len(clusters)

\* C7 as stated: the loop halts, and on finite distances only with exactly one
\* active cluster after exactly n-1 merges, n - m clusters being active after
\* m merges.
C7_HaltsWithOneCluster ==
    /\ ActiveCountInv
    /\ (Returned /\ AllFinite) =>
          (Cardinality(active) = 1 /\ Len(clusters) = n - 1)

\* C7 amended: the same for n >= 1; an empty matrix halts at once with no
\* active cluster and no merge.  Termination is the loop variant: an iteration
\* either leaves the loop or retires exactly one active index and records
\* exactly one merge, and the active set cannot shrink below empty.
C7_HaltsWithOneClusterNonEmpty ==
    /\ [][pc = "loop" =>
            \/ /\ pc' = "loop"
               /\ Cardinality(active') = Cardinality(active) - 1
               /\ Len(clusters') = Len(clusters) + 1
            \/ /\ pc' = "returned"
               /\ active' = active /\ clusters' = clusters]_vars
    /\ [](/\ ActiveCountInv
          /\ (Returned /\ AllFinite /\ n >= 1) =>
                (Cardinality(active) = 1 /\ Len(clusters) = n - 1)
          /\ (Returned /\ n = 0) =>
                (Cardinality(active) = 0 /\ Len(clusters) = 0))

C7_Witness ==
    /\ Returned /\ AllFinite /\ n = 4
    /\ Cardinality(active) = 1 /\ Len(clusters) = 3

\* The distance knnClassify computes for reference item i (1-based).
RefDistance(i) ==
    DistanceMemo[params.distanceType, tweetText, CleanedOrText(trainingData[i])]

\* Reference item j comes before item i in ascending distance, original order
\* deciding between equal distances.
Precedes(j, i) ==
    \/ DblLess(RefDistance(j), RefDistance(i))
    \/ /\ ~DblLess(RefDistance(i), RefDistance(j))
       /\ j < i

Rank(i) == Cardinality({j \in 1..Len(trainingData) : Precedes(j, i)})

KnnEntered == knnPc \in {"neighbors", "returned"}

\* C8: the neighbours are the first min(k, len(reference)) reference items in
\* ascending distance to the query, items at equal distance in their original
\* reference order; with k > len(reference) every reference item is a neighbour.
C8_FirstKByDistance ==
    KnnEntered =>
        /\ Len(neighbors) = Min(params.k, Len(trainingData))
        /\ \A q \in 1..Len(neighbors) :
             \E i \in 1..Len(trainingData) :
                /\ Rank(i) = q - 1
                /\ neighbors[q] = [distance |-> RefDistance(i),
                                   label |-> trainingData[i].label]

\* k cuts between two reference items at the same distance with different
\* labels: the earlier one is the neighbour.
C8_Witness ==
    /\ knnPc = "neighbors"
    /\ Len(trainingData) = 3
    /\ params.k = 1
    /\ RefDistance(1) = RefDistance(2)
    /\ DblLess(RefDistance(2), RefDistance(3))
    /\ trainingData[1].label # trainingData[2].label
    /\ neighbors = <<[distance |-> RefDistance(1), label |-> trainingData[1].label]>>

FirstOccurrence(arr, v) == CHOOSE q \in 1..Len(arr) : arr[q] = v /\ \A r \in 1..(q - 1) : arr[r] # v

MajoritySelected == knnPc = "returned" /\ params.voteType # "weighted"

\* C9: with majority vote and at least one neighbour, the returned label has
\* the highest count among the neighbours, and of the labels with that count it
\* is the one met first when the neighbours are scanned in distance order.
C9_MajorityFirstMaximal ==
    (MajoritySelected /\ Len(neighbors) > 0) =>
        LET labels == NeighborLabels(neighbors)
        IN  /\ \E q \in 1..Len(labels) : labels[q] = predictedLabel
            /\ \A q \in 1..Len(labels) :
                 /\ CountOf(labels, labels[q]) <= CountOf(labels, predictedLabel)
                 /\ CountOf(labels, labels[q]) = CountOf(labels, predictedLabel)
                      => FirstOccurrence(labels, predictedLabel)
                           <= FirstOccurrence(labels, labels[q])

\* Two labels share the highest count and the first met is returned.
C9_Witness ==
    /\ MajoritySelected
    /\ Len(neighbors) = 2
    /\ neighbors[1].label # neighbors[2].label
    /\ predictedLabel = neighbors[1].label

WeightedSelected == knnPc = "returned" /\ params.voteType = "weighted"

\* C10: in weighted voting a neighbour at a smaller distance contributes at
\* least the weight of a neighbour at a larger distance, so that one neighbour
\* at distance 0 is not outvoted by one neighbour of another label further away.
C10_CloserWeighsMore ==
    WeightedSelected =>
        /\ \A q1, q2 \in 1..Len(neighbors) :
             DblLess(neighbors[q1].distance, neighbors[q2].distance)
               => ~DblLess(WeightMemo[neighbors[q1].distance],
                           WeightMemo[neighbors[q2].distance])
        /\ (/\ Len(neighbors) = 2
            /\ IsZero(neighbors[1].distance)
            /\ DblLess(neighbors[1].distance, neighbors[2].distance))
              => predictedLabel = neighbors[1].label

\* C11: with an empty reference set knnClassify returns "neutral", whatever
\* the query, k, the vote type and the metric name.
C11_EmptyReferenceNeutral ==
    (knnPc = "returned" /\ Len(trainingData) = 0) => predictedLabel = "neutral"

C11_Witness ==
    /\ knnPc = "returned"
    /\ Len(trainingData) = 0
    /\ params = [k |-> MaxK, voteType |-> "majority", distanceType |-> "cosine"]
    /\ tweetText = Str_good_day
    /\ neighbors = <<>>
    /\ predictedLabel = "neutral"

\* C12: calculateRandIndex returns 0 when called with fewer than 2 documents.
C12_RandIndexFewDocuments ==
    (evalPc = "randIndex" /\ Len(predictedArg) < 2) => evalResult = Int2Num(0)

MatrixEntries(matrix) ==
    {matrix[t][p] : t \in 1..Len(matrix), p \in 1..Len(matrix)}

\* C13: on sequences of different lengths calculateAccuracy returns 0 and
\* createConfusionMatrix returns an empty matrix (no row, or no count in it).
C13_LengthMismatchDegenerate ==
    Len(predictedArg) # Len(actualArg) =>
        /\ evalPc = "accuracy" => evalResult = Int2Num(0)
        /\ evalPc = "confusion" => MatrixEntries(evalResult.matrix) \subseteq {0}

\* The labels of the documents of one cluster of the call, in document order.
MembersOf(cluster) == MemberLabels(predictedArg, actualArg, cluster, 0)

HighestCount(labels) ==
    CHOOSE c \in 0..Len(labels) :
       /\ \A q \in 1..Len(labels) : CountOf(labels, labels[q]) <= c
       /\ c = 0 \/ \E q \in 1..Len(labels) : CountOf(labels, labels[q]) = c

\* The position at which label has been met count times.
RECURSIVE ReachedAt(_, _, _, _)
ReachedAt(labels, label, count, pos) ==
    IF CountOf(SubSeq(labels, 1, pos), label) >= count THEN pos
    ELSE ReachedAt(labels, label, count, pos + 1)

RepresentativeBuilt ==
    /\ evalPc \in {"accuracy", "confusion"}
    /\ Len(predictedArg) = Len(actualArg)

\* C14 as claimed: a cluster's representative label is a most frequent label
\* of its members, and of several most frequent labels the one whose count
\* reaches the maximum first as the documents are scanned in original order.
C14_ModeFirstToReachMax ==
    RepresentativeBuilt =>
        \A cluster \in DOMAIN clusterToLabel :
           LET labels == MembersOf(cluster)
               top == HighestCount(labels)
               rep == clusterToLabel[cluster]
           IN  /\ CountOf(labels, rep) = top
               /\ \A q \in 1..Len(labels) :
                    CountOf(labels, labels[q]) = top
                      => ReachedAt(labels, rep, top, 1)
                           <= ReachedAt(labels, labels[q], top, 1)

\* C14 amended: of several most frequent labels the representative is the one
\* that occurs first among the cluster's documents in original order.
C14_ModeFirstOccurring ==
    RepresentativeBuilt =>
        \A cluster \in DOMAIN clusterToLabel :
           LET labels == MembersOf(cluster)
               top == HighestCount(labels)
               rep == clusterToLabel[cluster]
           IN  /\ CountOf(labels, rep) = top
               /\ \A q \in 1..Len(labels) :
                    CountOf(labels, labels[q]) = top
                      => FirstOccurrence(labels, rep)
                           <= FirstOccurrence(labels, labels[q])

\* One cluster with labels a, b, b, a: b reaches two first, a occurs first.
C14_Witness ==
    /\ evalPc = "accuracy"
    /\ predictedArg = <<0, 0, 0, 0>>
    /\ actualArg = <<"positive", "negative", "negative", "positive">>
    /\ clusterToLabel[0] = "positive"

SamePartition ==
    \A i, j \in 1..Len(predictedArg) :
       (predictedArg[i] = predictedArg[j]) <=> (actualArg[i] = actualArg[j])

\* C15: on an assignment and a ground truth over the same documents
\* calculateRandIndex returns a value in [0,1], and 1 when both induce the
\* same partition.
C15_RandIndexRange ==
    (evalPc = "randIndex" /\ Len(predictedArg) = Len(actualArg)) =>
        /\ LessEq(Int2Num(0), evalResult)
        /\ LessEq(evalResult, Int2Num(1))
        /\ SamePartition => evalResult = Int2Num(1)

\* C16: calculateAccuracy returns a number in [0,1], the fraction of documents
\* whose label is their cluster's representative label.
C16_AccuracyRange ==
    evalPc = "accuracy" =>
        /\ LessEq(Int2Num(0), evalResult)
        /\ LessEq(evalResult, Int2Num(1))
        /\ (Len(predictedArg) = Len(actualArg) /\ Len(predictedArg) > 0)
             => evalResult =
                  IntDiv(Cardinality({q \in 1..Len(predictedArg) :
                       clusterToLabel[predictedArg[q]] = actualArg[q]}),
                         Len(predictedArg))

Extracted == pc \in {"extracted", "evaluated"}

\* C17: cutting the dendrogram of n >= 2 documents at k = n gives n distinct
\* cluster ids, and the accuracy of that assignment over labelled documents
\* is 1.
C17_CutAtNSingletons ==
    (Extracted /\ AllFinite /\ n >= 2 /\ kArg = n) =>
        /\ Cardinality(DistinctIds(assignments)) = n
        /\ (pc = "evaluated" /\ \A q \in 1..Len(tweets) : HasLabel(tweets[q]))
             => accuracy = Int2Num(1)

\* C18: the assignment returned by formClusters uses exactly the ids
\* 0..k'-1, gives document 0 the id 0, first uses id c+1 after it first uses
\* id c, and gives two documents the same id exactly when they had the same
\* id before the renumbering.
C18_DenseFirstSeen ==
    Extracted =>
        LET raw == RawAssignments(clusters, kArg, n)
            ids == DistinctIds(assignments)
        IN  /\ Len(assignments) = Len(raw)
            /\ ids = 0..(Cardinality(ids) - 1)
            /\ Len(assignments) > 0 => assignments[1] = 0
            /\ \A c \in ids :
                 (c + 1) \in ids => FirstOccurrence(assignments, c)
                                      < FirstOccurrence(assignments, c + 1)
            /\ \A i, j \in 1..Len(raw) :
                 (assignments[i] = assignments[j]) <=> (raw[i] = raw[j])

\* Four documents cut at k = 2: the ids before renumbering are 6, 1, 2, 6.
C18_Witness ==
    /\ pc = "extracted"
    /\ n = 4
    /\ kArg = 2
    /\ RawAssignments(clusters, kArg, n) = <<6, 1, 2, 6>>
    /\ assignments = <<0, 1, 2, 0>>

TokenSet(tweet) == WordSet(ToLowerCase(tweet.cleaned))

\* (|A u B| - |A n B|) / |A u B|
DefaultMetric(A, B) ==
    IntDiv(Cardinality(A \cup B) - Cardinality(A \cap B), Cardinality(A \cup B))

\* C19: every off-diagonal entry of the matrix built by createDistanceMatrix
\* is the default metric of the two documents' token sets; identical
\* non-empty token sets are at distance 0.
C19_MatrixIsDefaultMetric ==
    (Len(tweets) >= 2 /\ n = Len(tweets)) =>
        \A i, j \in 1..n :
           LET A == TokenSet(tweets[i])
               B == TokenSet(tweets[j])
           IN  (i # j /\ A \cup B # {}) =>
                  /\ distanceMatrix[i][j] = DefaultMetric(A, B)
                  /\ A = B => distanceMatrix[i][j] = Int2Num(0)

\* The documents standing in each slot after the first m merges.
RECURSIVE MembersAfter(_, _)
MembersAfter(linkage, m) ==
    IF m = 0 THEN [slot \in 0..(n - 1) |-> {slot}]
    ELSE LET prev == MembersAfter(linkage, m - 1)
             rec == linkage[m]
         IN  [prev EXCEPT ![rec.left] = prev[rec.left] \cup prev[rec.right]]

\* C20: the count of every MergeRecord is the number of original documents in
\* the cluster it forms, the sum of the member counts of the two clusters
\* merged, and the count of the last record of a complete dendrogram is n.
C20_CountIsClusterSize ==
    /\ \A p \in 1..Len(clusters) :
          LET before == MembersAfter(clusters, p - 1)
              rec == clusters[p]
          IN  /\ rec.count = Cardinality(MembersAfter(clusters, p)[rec.left])
              /\ rec.count = Cardinality(before[rec.left])
                               + Cardinality(before[rec.right])
    /\ (pc \in {"returned", "extracted", "evaluated"} /\ n >= 2 /\ AllFinite)
          => clusters[Len(clusters)].count = n

\* Ward linkage on four documents: the last merge joins two earlier merges.
C20_Witness ==
    /\ pc = "returned"
    /\ n = 4
    /\ AllFinite
    /\ method = "ward"
    /\ Len(clusters) = 3
    /\ clusters[1].count = 2
    /\ clusters[2].count = 2
    /\ clusters[3].count = 4

\* C21: each of the four metrics is symmetric: distance(a, b) and
\* distance(b, a) are the same number, empty strings included.
C21_MetricSymmetric ==
    metricPc = "swapped" => metricResult = metricSwapped

\* Cosine on a repeated word against two words: a distance strictly between
\* 0 and 1, the same in both orders.
C21_Witness ==
    /\ metricPc = "swapped"
    /\ metricType = "cosine"
    /\ metricA = Str_good_good_day
    /\ metricB = Str_good
    /\ DblLess(DblZero, metricResult)
    /\ DblLess(metricResult, DblFromInt(1))
    /\ metricSwapped = metricResult

\* C22: each of the four metrics returns a value in [0,1] for every pair of
\* strings, empty and token-free strings included.
C22_MetricInUnitInterval ==
    metricPc \in {"called", "swapped"} =>
        /\ DblLessEq(DblZero, metricResult)
        /\ DblLessEq(metricResult, DblFromInt(1))

EmptyQueryCosineWeighted ==
    /\ WeightedSelected
    /\ tweetText = <<>>
    /\ params.distanceType = "cosine"
    /\ Len(trainingData) > 0

\* The labels of the first min(k, n) reference items, in reference order.
FirstKLabels ==
    [q \in 1..Min(params.k, Len(trainingData)) |-> trainingData[q].label]

\* C23 as claimed: for an empty query under cosine with weighted vote and a
\* non-empty reference set, every reference item is at distance 1 and the
\* label of the first reference item is returned, for every k >= 1.
C23_FirstReferenceLabel ==
    EmptyQueryCosineWeighted =>
        /\ \A i \in 1..Len(trainingData) : RefDistance(i) = DblFromInt(1)
        /\ predictedLabel = trainingData[1].label

\* C23 amended: every reference item is at distance 1 and the label returned
\* is the one most of the first min(k, n) reference items carry, the first met
\* of the labels that tie.
C23_MostFrequentOfFirstK ==
    EmptyQueryCosineWeighted =>
        /\ \A i \in 1..Len(trainingData) : RefDistance(i) = DblFromInt(1)
        /\ \A q \in 1..Len(FirstKLabels) :
             /\ CountOf(FirstKLabels, FirstKLabels[q])
                  <= CountOf(FirstKLabels, predictedLabel)
             /\ CountOf(FirstKLabels, FirstKLabels[q])
                  = CountOf(FirstKLabels, predictedLabel)
                  => FirstOccurrence(FirstKLabels, predictedLabel)
                       <= FirstOccurrence(FirstKLabels, FirstKLabels[q])

\* The first reference item is outvoted by the two that follow it.
C23_Witness ==
    /\ EmptyQueryCosineWeighted
    /\ params.k = 3
    /\ FirstKLabels = <<"negative", "positive", "positive">>
    /\ predictedLabel = "positive"

\* C24: on a matrix of fewer than 2 documents hierarchicalClustering performs
\* no merge and returns an empty dendrogram.
C24_FewDocumentsNoMerge ==
    /\ n < 2 => clusters = <<>>
    /\ (pc = "loop" /\ n < 2) => ~ENABLED MergeStep

\* The call on a 1 x 1 matrix has returned.
C24_Witness ==
    /\ pc = "returned"
    /\ n = 1
    /\ active = {0}
    /\ clusters = <<>>

\* The documents each slot stands for after the merges recorded so far.
Members == MembersAfter(clusters, Len(clusters))

\* The original distances between the documents of two slots.
CrossDistances(i, j) ==
    {<<x, y, At(At(distanceMatrix, x), y)>> : x \in Members[i], y \in Members[j]}

\* The least exponent of the distances.
LeastExponent(triples) ==
    CHOOSE e \in {t[3].e : t \in triples} : \A u \in triples : e <= u[3].e

\* The sum of finite distances above zero, in units of 2^e, not rounded.
RECURSIVE SumOf(_, _)
SumOf(triples, e) ==
    IF triples = {} THEN <<>>
    ELSE LET t == CHOOSE u \in triples : TRUE
         IN  BigAdd(BigShl(t[3].m, t[3].e - e), SumOf(triples \ {t}, e))

\* sum * 2^e / count, rounded once.
RoundedQuotient(sum, e, count) ==
    LET st == ShortDiv(<<0, 0>> \o sum, count, Len(sum) + 2, [q |-> <<>>, r |-> 0])
    IN  RoundNat(1, BigStrip(st.q), e - 2 * LimbBits, st.r > 0)

\* The number nearest to the arithmetic mean of distances that are not
\* negative: the sum is exact and the quotient rounded once.  Infinity as
\* soon as one distance is Infinity.
MeanOf(triples) ==
    IF \E t \in triples : ~IsFinite(t[3]) THEN Infinity
    ELSE LET above == {t \in triples : ~IsZero(t[3])}
         IN  IF above = {} THEN DblZero
             ELSE RoundedQuotient(SumOf(above, LeastExponent(above)),
                                  LeastExponent(above), Cardinality(triples))

\* The largest distance.
MaxOf(triples) ==
    (CHOOSE t \in triples : \A u \in triples : ~Less(t[3], u[3]))[3]

\* C25: under average linkage the working distance between two distinct
\* active clusters is the arithmetic mean of the original distances
\* over all pairs of documents, one from each cluster, after any number of
\* merges.
C25_AverageIsMeanOfPairs ==
    method = "average" =>
        \A i, j \in active :
           i # j => At(At(distances, i), j) = MeanOf(CrossDistances(i, j))

\* C26: under complete linkage the working distance between two distinct
\* active clusters is the maximum of the original distances over all pairs of
\* documents, one from each cluster, after any number of merges.
C26_CompleteIsMaxOfPairs ==
    method = "complete" =>
        \A i, j \in active :
           i # j => At(At(distances, i), j) = MaxOf(CrossDistances(i, j))

\* A cluster of three documents against a single one, at different distances.
C26_Witness ==
    /\ method = "complete"
    /\ pc = "loop"
    /\ n = 4
    /\ Len(clusters) = 2
    /\ \E i, j \in active :
         /\ i # j
         /\ Cardinality(Members[i]) = 3
         /\ Cardinality({t[3] : t \in CrossDistances(i, j)}) = 2
         /\ At(At(distances, i), j) = Int2Num(2)

\* C28: under ward linkage on finite non-negative distances the quantity under
\* the square root is never negative: no working distance and no MergeRecord
\* distance is NaN, and the closest-pair scan finds a pair while more than one
\* cluster is active.
C28_WardNeverNaN ==
    (method = "ward" /\ AllFinite) =>
        /\ \A r, c \in 1..Len(distances) : ~IsNaN(distances[r][c])
        /\ \A p \in 1..Len(clusters) : ~IsNaN(clusters[p].distance)
        /\ (pc = "loop" /\ Cardinality(active) > 1)
             => FindMin(activeArray, distances).minI # -1

\* A merge has written the root of a non-square rational.
C28_Witness ==
    /\ method = "ward"
    /\ AllFinite
    /\ pc = "loop"
    /\ n = 3
    /\ Len(clusters) = 1
    /\ \E i, j \in active : i # j /\ ~IsWhole(At(At(distances, i), j))

RECURSIVE SumSeqOfSeqs(_)
SumSeqOfSeqs(rows) ==
    IF Len(rows) = 0 THEN 0 ELSE SumSeq(rows[1]) + SumSeqOfSeqs(Tail(rows))

DiagonalSum(matrix) == SumSeq([q \in 1..Len(matrix) |-> matrix[q][q]])

\* C29: for an assignment and a label sequence of the same length n >= 1 the
\* cells of the confusion matrix sum to n, and its diagonal sum divided by n
\* is the value calculateAccuracy returns on the same inputs.
C29_ConfusionAgreesWithAccuracy ==
    (/\ evalPc = "confusion"
     /\ Len(predictedArg) = Len(actualArg)
     /\ Len(predictedArg) >= 1) =>
        /\ SumSeqOfSeqs(evalResult.matrix) = Len(predictedArg)
        /\ IntDiv(DiagonalSum(evalResult.matrix), Len(predictedArg))
             = calculateAccuracy(predictedArg, actualArg)

\* Two clusters, three labels, one document off the diagonal.
C29_Witness ==
    /\ evalPc = "confusion"
    /\ predictedArg = <<0, 0, 1, 1>>
    /\ actualArg = <<"positive", "neutral", "negative", "negative">>
    /\ evalResult.labels = <<"negative", "neutral", "positive">>
    /\ evalResult.matrix = <<<<2, 0, 0>>, <<0, 0, 1>>, <<0, 0, 1>>>>

\* C27: hierarchicalClustering never modifies the caller's matrix: no step of
\* the call changes an entry of it, for every method and every n, the merge
\* updates going to a working copy that shares no row with it.
C27_InputMatrixUntouched ==
    [][pc = "loop" =>
         /\ distanceMatrix' = distanceMatrix
         /\ \A r \in 1..Len(matrixRows), w \in 1..Len(distancesRows) :
               matrixRows[r] # distancesRows[w]]_vars

\* Merges have rewritten the working matrix and the caller's is as passed.
C27_Witness ==
    /\ pc = "returned"
    /\ n = 4
    /\ Len(clusters) = 3
    /\ \E r, c \in 1..n : distances[r][c] # distanceMatrix[r][c]
    /\ \E cond \in [UpperPairs(n) -> CoarseValues] :
          distanceMatrix = SquareForm(n, cond)

\* C30: a manual annotation or an upload made while a classification is
\* pending is still in testTweets after the delayed callback has run: the
\* callback keeps the list's tweets and their labels as they are when it runs.
C30_PendingChangesSurvive ==
    [][(classifyTimer # NoTimer /\ classifyTimer' = Tail(classifyTimer)) =>
          /\ Len(testTweets') = Len(testTweets)
          /\ \A q \in 1..Len(testTweets) :
                /\ testTweets'[q].id = testTweets[q].id
                /\ testTweets'[q].cleaned = testTweets[q].cleaned
                /\ testTweets'[q].label = testTweets[q].label]_vars

====
